---- MODULE Spec2Model ----
(***************************************************************************)
(* State-machine model of the agentic-memory MCP server:                   *)
(*   - the Session Core (session/manager.rs, session/transaction.rs,       *)
(*     session/autosave.rs, tools/session_end.rs, tools/session_start.rs)  *)
(*   - the handshake of the Protocol Core (protocol/negotiation.rs).       *)
(* The graph engine, the on-disk codec and the protocol dispatcher are     *)
(* collaborators whose code is outside the modelled sources; they are      *)
(* modelled from the specification's description of them.                  *)
(***************************************************************************)
EXTENDS Integers, Sequences, FiniteSets, TLC

\* ------------------------------------------------------------------ bounds

\* Largest number of nodes the in-memory graph may hold.
MaxNodes == 2
\* Largest session id a caller gives to an event it queues in a transaction.
MaxSession == 1
\* The clock stops at this many seconds.
MaxTime == 32
\* Seconds by which one clock step advances the clock.
TickSecs == 15
\* Largest number of events queued in one transaction.
MaxTxEvents == 2
\* Number of tool calls in flight on one Session Core.
NumHandlers == 2
\* Number of progress tokens start() hands out.
MaxTokens == 2
\* Capacity of the bounded channel of outgoing notifications
\* (mpsc::channel(n); the tests use 16 and 32).
ChannelCapacity == 1
\* Largest progress value given to update().
MaxProgress == 1
\* Number of Session Cores that read one memory file at the same time.
NumReaders == 3
\* The longest list of results that is cut into chunks.
MaxResults == 5
\* The largest chunk_size.
MaxChunkSize == 3

\* manager.rs:14
DEFAULT_AUTO_SAVE_SECS == 30

\* Session ids are u32 (manager.rs:22). A u32 is held as its 32-bit pattern
\* read as a two's-complement integer, the widest integer of the model
\* checker: 0 .. 2^31 - 1 stand for themselves and 2^31 .. 2^32 - 1 are the
\* negative integers, so the largest u32, 0xFFFFFFFF, is -1.
U32_MAX == -1

\* The largest pattern that stands for itself, 0x7FFFFFFF.
I32_MAX == 2147483647

\* a <= b as u32.
U32Leq(a, b) == IF (a < 0) = (b < 0) THEN a <= b ELSE a >= 0

\* a + 1 on u32, wrapping.
U32WrappingInc(a) ==
    IF a = U32_MAX THEN 0
    ELSE IF a = I32_MAX THEN -I32_MAX - 1
    ELSE a + 1

\* ------------------------------------------------------------------ values

NoFile == [kind |-> "none"]
\* A file whose bytes are not a complete image (a write that stopped part-way).
Partial == [kind |-> "partial"]

EmptyGraph == [nodes |-> <<>>, edges |-> {}]

\* An id no node of the graph ever has (the graph holds at most MaxNodes nodes).
DanglingId == MaxNodes + 1

\* Iterator::max over u32 values.
Max(S) == CHOOSE x \in S : \A y \in S : U32Leq(y, x)

\* The tool calls in flight (memory_add) on one Arc<Mutex<SessionManager>>.
Handlers == 1..NumHandlers

\* Nobody is inside the Mutex.
Free == [task |-> "none", n |-> 0]
HandlerTask(h) == [task |-> "handler", n |-> h]
TickerTask == [task |-> "ticker", n |-> 0]

NotReturned == [returned |-> FALSE, ok |-> FALSE, id |-> 0]

\* The agents that only read.
Readers == 1..NumReaders

\* What a read returned.
NothingSeen == [tool |-> "none", nodes |-> <<>>, node_count |-> 0, edge_count |-> 0]

\* An agent that has not opened the file.
NoReader ==
    [open |-> FALSE, graph |-> EmptyGraph, current_session |-> 0, dirty |-> FALSE,
     attempts |-> 0, seen |-> NothingSeen]

\* The tokens start() returns (uuid v4 strings, all different), in the
\* order they are handed out.
Tokens == 1..MaxTokens

\* A token start() never returned ("nonexistent-token").
UnknownToken == 0

\* Option<f64>: <<>> is None, <<t>> is Some(t).
Totals == {<<>>, <<100>>}

ProgressValues == 1..MaxProgress

\* No call of update() is in flight.
NoUpdate == [pc |-> "idle", token |-> 0, progress |-> 0, total |-> <<>>]

\* is_cancelled() has not been called.
NotAsked == [token |-> 0, ret |-> FALSE, called |-> FALSE]

\* ------------------------------------------------------------------ state

VARIABLES
    \* Session Core (SessionManager)
    open,             \* TRUE while a SessionManager value exists
    graph,            \* SessionManager.graph
    current_session,  \* SessionManager.current_session
    dirty,            \* SessionManager.dirty
    last_save,        \* SessionManager.last_save
    \* environment
    file,             \* the memory file at file_path
    now,              \* Instant::now(), in seconds; an Instant has no origin,
                      \* and the origin is kept at the instant of last_save
    \* what the last operation was and what it returned
    last,
    \* the largest node id this SessionManager has returned to a caller
    \* (followed in SpecIds only)
    max_returned,
    \* Protocol Core
    initialized,      \* NegotiatedCapabilities.initialized
    client,           \* NegotiatedCapabilities.client
    shutting_down,    \* the handler's ShuttingDown state
    reply,            \* what the last message was and how it was answered
    \* the tasks that share one Arc<Mutex<SessionManager>>
    mutex,            \* the task inside the tokio Mutex, if any
    pc,               \* where each tool call is: "idle", "locked", "done"
    seen,             \* the graph each tool call found when it got the lock
    got,              \* what each tool call returned
    order,            \* the tool calls in the order they got the lock
    ticker,           \* where the auto-save task is: "absent", "sleeping", "locked", "ended"
    logged,           \* the last turn of the auto-save task logged an error
    owners,           \* the holders of a strong Arc to the SessionManager
    \* the Session Cores of the agents that only read one memory file
    readers,
    \* Progress Tracker
    active,           \* ProgressTracker.active: token -> ProgressState
    channel,          \* the notifications buffered in the mpsc channel
    rx_alive,         \* the Receiver of the channel has not been dropped
    next_token,       \* how many tokens start() has returned
    live,             \* the tokens started and neither cancelled nor completed since
    upd,              \* the call of update() in flight, if any
    asked             \* the last call of is_cancelled() and its answer

sessVars == <<open, graph, current_session, dirty, last_save, file, now, last,
              max_returned>>
protoVars == <<initialized, client, shutting_down, reply>>
taskVars == <<mutex, pc, seen, got, order, ticker, logged, owners>>
readerVars == <<readers>>
trackVars == <<active, channel, rx_alive, next_token, live, upd, asked>>
vars == <<sessVars, protoVars, taskVars, readerVars, trackVars>>

\* ------------------------------------------------------------------ graph engine

NodeIds(g) == 1..Len(g.nodes)

node_count(g) == Len(g.nodes)

edge_count(g) == Cardinality(g.edges)

\* SessionIndex::session_ids: the session ids that have at least one node.
session_ids(g) == {g.nodes[i].session_id : i \in NodeIds(g)}

\* MemoryGraph::add_edge: rejects an edge one of whose endpoints is no node.
add_edge(g, e) ==
    IF e.source_id \in NodeIds(g) /\ e.target_id \in NodeIds(g)
    THEN [ok |-> TRUE, graph |-> [g EXCEPT !.edges = @ \cup {e}]]
    ELSE [ok |-> FALSE, graph |-> g]

RECURSIVE AppendNodes(_, _)
AppendNodes(nodes, events) ==
    IF events = <<>> THEN nodes
    ELSE AppendNodes(Append(nodes, [event_type |-> Head(events).event_type,
                                    session_id |-> Head(events).session_id]),
                     Tail(events))

\* WriteEngine::ingest: one batch of events and edges, all of it or none of it.
\* Node ids are allocated in order, after the largest id of the graph.
ingest(g, events, edges) ==
    LET withNodes == [g EXCEPT !.nodes = AppendNodes(g.nodes, events)]
        accepted == /\ \A i \in 1..Len(events) : events[i].valid
                    /\ \A i \in 1..Len(edges) :
                          /\ edges[i].source_id \in NodeIds(withNodes)
                          /\ edges[i].target_id \in NodeIds(withNodes)
    IN IF accepted
       THEN [ok |-> TRUE,
             graph |-> [withNodes EXCEPT
                          !.edges = @ \cup {edges[i] : i \in 1..Len(edges)}],
             new_node_ids |-> [i \in 1..Len(events) |-> Len(g.nodes) + i]]
       ELSE [ok |-> FALSE, graph |-> g, new_node_ids |-> <<>>]

\* WriteEngine::correct: a correction node that supersedes old_node_id.
correct(g, old_node_id, session_id) ==
    IF old_node_id \notin NodeIds(g)
    THEN [ok |-> FALSE, graph |-> g, new_id |-> 0]
    ELSE LET id == Len(g.nodes) + 1 IN
         [ok |-> TRUE,
          graph |-> [nodes |-> Append(g.nodes, [event_type |-> "correction",
                                                session_id |-> session_id]),
                     edges |-> g.edges \cup {[source_id |-> id,
                                              target_id |-> old_node_id,
                                              edge_type |-> "supersedes"]}],
          new_id |-> id]

\* compress_session replacing the nodes of the graph by the episode node.
compress_session_replaces(g, session_id, engine_ok) ==
    IF ~engine_ok
    THEN [ok |-> FALSE, graph |-> g, episode_id |-> 0]
    ELSE [ok |-> TRUE,
          graph |-> [nodes |-> <<[event_type |-> "episode", session_id |-> session_id]>>,
                     edges |-> {}],
          episode_id |-> 1]

\* WriteEngine::compress_session: an episode node for session_id, with a
\* part_of edge from every node of that session.
compress_session(g, session_id, engine_ok) ==
    IF ~engine_ok
    THEN [ok |-> FALSE, graph |-> g, episode_id |-> 0]
    ELSE LET id == Len(g.nodes) + 1 IN
         [ok |-> TRUE,
          graph |-> [nodes |-> Append(g.nodes, [event_type |-> "episode",
                                                session_id |-> session_id]),
                     edges |-> g.edges \cup
                        {[source_id |-> i, target_id |-> id, edge_type |-> "part_of"] :
                            i \in {j \in NodeIds(g) : g.nodes[j].session_id = session_id}}],
          episode_id |-> id]

\* ------------------------------------------------------------------ codec

\* AmemWriter: the image of a graph is a header with the counts, the node
\* table and the edge table.
Encode(g) ==
    [kind |-> "image", node_count |-> Len(g.nodes),
     edge_count |-> Cardinality(g.edges), nodes |-> g.nodes, edges |-> g.edges]

WellFormed(f) ==
    /\ f.kind = "image"
    /\ f.node_count = Len(f.nodes)
    /\ f.edge_count = Cardinality(f.edges)

\* AmemReader::read_from_file: the graph of a well-formed image.
read_from_file(f) ==
    IF WellFormed(f)
    THEN [ok |-> TRUE, graph |-> [nodes |-> f.nodes, edges |-> f.edges]]
    ELSE [ok |-> FALSE, graph |-> EmptyGraph]

\* How one write of the file ends: it completes, it stops part-way with an
\* IO error, or the process is killed part-way.
IoOutcomes == {"ok", "fail", "killed"}

\* write_to_file writing the target in place.
write_in_place(g, f, io) ==
    IF io = "ok"
    THEN [ok |-> TRUE, file |-> Encode(g)]
    ELSE [ok |-> FALSE, file |-> Partial]

\* AmemWriter::write_to_file: the image goes to a sibling temp file, which is
\* renamed over the target once it is complete; a write that stops part-way
\* leaves the target as it was.
write_to_file(g, f, io) ==
    IF io = "ok"
    THEN [ok |-> TRUE, file |-> Encode(g)]
    ELSE [ok |-> FALSE, file |-> f]

\* ------------------------------------------------------------------ Session Core

\* SessionManager.auto_save_interval, set by open and never changed.
auto_save_interval == DEFAULT_AUTO_SAVE_SECS

\* The SessionManager and its file as one value, for the methods below.
\* writes / attempts count the calls of write_to_file that completed / began.
Self ==
    [graph |-> graph, current_session |-> current_session, dirty |-> dirty,
     last_save |-> last_save, file |-> file,
     writes |-> 0, attempts |-> 0, killed |-> FALSE, panicked |-> FALSE]

\* SessionManager::graph_mut
graph_mut(w) == [w EXCEPT !.dirty = TRUE]

\* SessionManager::mark_dirty
mark_dirty(w) == [w EXCEPT !.dirty = TRUE]

\* save without the early return on a clean graph.
save_always_writes(w, io) ==
    LET r == write_to_file(w.graph, w.file, io) IN
    IF r.ok
    THEN [w |-> [w EXCEPT !.file = r.file, !.dirty = FALSE, !.last_save = now,
                          !.writes = @ + 1, !.attempts = @ + 1],
          ok |-> TRUE]
    ELSE [w |-> [w EXCEPT !.file = r.file, !.attempts = @ + 1,
                          !.killed = (io = "killed")],
          ok |-> FALSE]

\* save clearing dirty and advancing last_save before the write is known to
\* have succeeded.
save_clears_early(w, io) ==
    IF ~w.dirty
    THEN [w |-> w, ok |-> TRUE]
    ELSE LET r == write_to_file(w.graph, w.file, io) IN
         [w |-> [w EXCEPT !.file = r.file, !.dirty = FALSE, !.last_save = now,
                          !.writes = @ + (IF r.ok THEN 1 ELSE 0),
                          !.attempts = @ + 1, !.killed = (io = "killed")],
          ok |-> r.ok]

\* SessionManager::save
save(w, io) ==
    IF ~w.dirty
    THEN [w |-> w, ok |-> TRUE]
    ELSE LET r == write_to_file(w.graph, w.file, io) IN
         IF r.ok
         THEN [w |-> [w EXCEPT !.file = r.file, !.dirty = FALSE,
                               !.last_save = now, !.writes = @ + 1,
                               !.attempts = @ + 1],
               ok |-> TRUE]
         ELSE [w |-> [w EXCEPT !.file = r.file, !.attempts = @ + 1,
                               !.killed = (io = "killed")],
               ok |-> FALSE]

\* maybe_auto_save ignoring the interval.
maybe_auto_save_ignores_interval(w, io) ==
    IF w.dirty THEN save(w, io) ELSE [w |-> w, ok |-> TRUE]

\* SessionManager::maybe_auto_save
maybe_auto_save(w, io) ==
    IF w.dirty /\ now - w.last_save >= auto_save_interval
    THEN save(w, io)
    ELSE [w |-> w, ok |-> TRUE]

\* The edge loop of add_event: the edges are added one by one and the loop
\* stops at the first edge the graph rejects.
RECURSIVE AddEdges(_, _, _)
AddEdges(g, node_id, targets) ==
    IF targets = <<>> THEN [ok |-> TRUE, graph |-> g]
    ELSE LET r == add_edge(g, [source_id |-> node_id, target_id |-> Head(targets),
                               edge_type |-> "related_to"])
         IN IF r.ok THEN AddEdges(r.graph, node_id, Tail(targets))
            ELSE [ok |-> FALSE, graph |-> r.graph]

\* add_event returning the number of nodes the graph held before the call.
add_event_returns_count(w, valid, targets, io) ==
    LET event == [event_type |-> "fact", session_id |-> w.current_session,
                  valid |-> valid]
        result == ingest(w.graph, <<event>>, <<>>)
    IN IF ~result.ok
       THEN [w |-> w, ok |-> FALSE, ret |-> <<>>]
       ELSE LET e == AddEdges(result.graph, result.new_node_ids[1], targets)
            IN IF ~e.ok
               THEN [w |-> [w EXCEPT !.graph = e.graph], ok |-> FALSE, ret |-> <<>>]
               ELSE LET s == maybe_auto_save([w EXCEPT !.graph = e.graph,
                                                      !.dirty = TRUE], io)
                    IN [w |-> s.w, ok |-> s.ok,
                        ret |-> IF s.ok THEN <<node_count(w.graph)>> ELSE <<>>]

\* SessionManager::add_event
add_event(w, valid, targets, io) ==
    LET event == [event_type |-> "fact", session_id |-> w.current_session,
                  valid |-> valid]
        result == ingest(w.graph, <<event>>, <<>>)
    IN IF ~result.ok
       THEN [w |-> w, ok |-> FALSE, ret |-> <<>>]
       ELSE LET node_id == result.new_node_ids[1]
                e == AddEdges(result.graph, node_id, targets)
            IN IF ~e.ok
               THEN [w |-> [w EXCEPT !.graph = e.graph], ok |-> FALSE, ret |-> <<>>]
               ELSE LET s == maybe_auto_save([w EXCEPT !.graph = e.graph,
                                                      !.dirty = TRUE], io)
                    IN [w |-> s.w, ok |-> s.ok,
                        ret |-> IF s.ok THEN <<node_id>> ELSE <<>>]

\* correct_node giving the correction the session of the node it corrects.
correct_node_keeps_session(w, old_node_id, io) ==
    LET r == correct(w.graph, old_node_id,
                     IF old_node_id \in NodeIds(w.graph)
                     THEN w.graph.nodes[old_node_id].session_id ELSE 0) IN
    IF ~r.ok
    THEN [w |-> w, ok |-> FALSE, ret |-> <<>>]
    ELSE LET s == maybe_auto_save([w EXCEPT !.graph = r.graph, !.dirty = TRUE], io)
         IN [w |-> s.w, ok |-> s.ok, ret |-> IF s.ok THEN <<r.new_id>> ELSE <<>>]

\* SessionManager::correct_node
correct_node(w, old_node_id, io) ==
    LET r == correct(w.graph, old_node_id, w.current_session) IN
    IF ~r.ok
    THEN [w |-> w, ok |-> FALSE, ret |-> <<>>]
    ELSE LET s == maybe_auto_save([w EXCEPT !.graph = r.graph, !.dirty = TRUE], io)
         IN [w |-> s.w, ok |-> s.ok, ret |-> IF s.ok THEN <<r.new_id>> ELSE <<>>]

\* ids.iter().copied().max().unwrap_or(0) + 1 on u32: when the sum does not
\* fit, a build with overflow checks panics and a build without them wraps.
next_session_id(g, overflow_checks) ==
    LET ids == session_ids(g)
        largest == IF ids = {} THEN 0 ELSE Max(ids)
    IN [panicked |-> (largest = U32_MAX /\ overflow_checks),
        id |-> U32WrappingInc(largest)]

\* start_session marking the SessionManager dirty.
start_session_marks_dirty(w, explicit_id, overflow_checks) ==
    LET n == next_session_id(w.graph, overflow_checks)
        session_id == IF explicit_id # <<>> THEN explicit_id[1] ELSE n.id
    IN IF explicit_id = <<>> /\ n.panicked
       THEN [w |-> [w EXCEPT !.panicked = TRUE], ok |-> FALSE, ret |-> <<>>]
       ELSE [w |-> [w EXCEPT !.current_session = session_id, !.dirty = TRUE],
             ok |-> TRUE, ret |-> <<session_id>>]

\* SessionManager::start_session; explicit_id is <<>> (None) or <<id>> (Some(id)).
start_session(w, explicit_id, overflow_checks) ==
    LET n == next_session_id(w.graph, overflow_checks)
        session_id == IF explicit_id # <<>> THEN explicit_id[1] ELSE n.id
    IN IF explicit_id = <<>> /\ n.panicked
       THEN [w |-> [w EXCEPT !.panicked = TRUE], ok |-> FALSE, ret |-> <<>>]
       ELSE [w |-> [w EXCEPT !.current_session = session_id], ok |-> TRUE,
             ret |-> <<session_id>>]

\* SessionManager::end_session_with_episode
end_session_with_episode(w, session_id, engine_ok, io) ==
    LET r == compress_session(w.graph, session_id, engine_ok) IN
    IF ~r.ok
    THEN [w |-> w, ok |-> FALSE, ret |-> <<>>]
    ELSE LET s == save([w EXCEPT !.graph = r.graph, !.dirty = TRUE], io)
         IN [w |-> s.w, ok |-> s.ok, ret |-> IF s.ok THEN <<r.episode_id>> ELSE <<>>]

\* tools/session_end.rs execute; session_id is <<>> (absent) or <<id>>.
session_end(w, session_id, create_episode, engine_ok, io) ==
    LET sid == IF session_id # <<>> THEN session_id[1] ELSE w.current_session IN
    IF create_episode
    THEN end_session_with_episode(w, sid, engine_ok, io)
    ELSE LET s == save(w, io) IN [w |-> s.w, ok |-> s.ok, ret |-> <<>>]

\* commit saving before it looks at the result of the ingest.
commit_saves_first(w, events, edges, io) ==
    LET w1 == graph_mut(w)
        result == ingest(w1.graph, events, edges)
        s == save(mark_dirty([w1 EXCEPT !.graph = result.graph]), io)
    IN IF ~result.ok
       THEN [w |-> s.w, ok |-> FALSE, ret |-> <<>>, rejected |-> TRUE]
       ELSE [w |-> s.w, ok |-> s.ok,
             ret |-> IF s.ok THEN result.new_node_ids ELSE <<>>,
             rejected |-> FALSE]

\* commit leaving the save to the next auto-save.
commit_without_save(w, events, edges, io) ==
    LET w1 == graph_mut(w)
        result == ingest(w1.graph, events, edges)
    IN IF ~result.ok
       THEN [w |-> w1, ok |-> FALSE, ret |-> <<>>, rejected |-> TRUE]
       ELSE [w |-> mark_dirty([w1 EXCEPT !.graph = result.graph]), ok |-> TRUE,
             ret |-> result.new_node_ids, rejected |-> FALSE]

\* Transaction::commit
commit(w, events, edges, io) ==
    LET w1 == graph_mut(w)
        result == ingest(w1.graph, events, edges)
    IN IF ~result.ok
       THEN [w |-> w1, ok |-> FALSE, ret |-> <<>>, rejected |-> TRUE]
       ELSE LET s == save(mark_dirty([w1 EXCEPT !.graph = result.graph]), io)
            IN [w |-> s.w, ok |-> s.ok,
                ret |-> IF s.ok THEN result.new_node_ids ELSE <<>>,
                rejected |-> FALSE]

\* Drop that does not save.
drop_without_save(w, io) == [w |-> w, ok |-> TRUE, ret |-> <<>>]

\* impl Drop for SessionManager: a failed save is logged, nothing is returned.
drop(w, io) ==
    IF w.dirty
    THEN [w |-> save(w, io).w, ok |-> TRUE, ret |-> <<>>]
    ELSE [w |-> w, ok |-> TRUE, ret |-> <<>>]

\* The loop of spawn_autosave ending at the first auto-save that fails.
autosave_tick_ends_on_error(w, io) ==
    LET s == maybe_auto_save(w, io) IN
    [w |-> s.w, ok |-> TRUE, ret |-> <<>>, logged |-> ~s.ok, running |-> s.ok]

\* The body of the loop of spawn_autosave: a failed auto-save is logged and
\* the loop goes on.
autosave_tick(w, io) ==
    LET s == maybe_auto_save(w, io) IN
    [w |-> s.w, ok |-> TRUE, ret |-> <<>>, logged |-> ~s.ok, running |-> TRUE]

\* ------------------------------------------------------------------ operations

\* Opening file f yields graph g.
Reads(f, g) ==
    IF f = NoFile THEN g = EmptyGraph
    ELSE read_from_file(f).ok /\ read_from_file(f).graph = g

\* What is kept of the last operation: its name, what it returned, how many
\* writes of the file it began and completed, and what it changed.
NoOp == [op |-> "none", ok |-> TRUE, ret |-> <<>>, writes |-> 0, attempts |-> 0,
         killed |-> FALSE, panicked |-> FALSE, pre_dirty |-> FALSE,
         pre_elapsed |-> 0, graph_changed |-> FALSE, file_changed |-> FALSE,
         last_save_changed |-> FALSE, synced |-> TRUE, added |-> 0,
         queued |-> 0, rejected |-> FALSE, arg |-> <<>>, pre_session |-> 0,
         pre_returned |-> 0]

\* The record of an operation that returned r, taken in the state it was
\* called in.
Done(op, r, queued, rejected) ==
    [op |-> op, ok |-> r.ok, ret |-> r.ret, writes |-> r.w.writes,
     attempts |-> r.w.attempts, killed |-> r.w.killed,
     panicked |-> r.w.panicked, pre_dirty |-> dirty,
     pre_elapsed |-> now - last_save,
     graph_changed |-> (r.w.graph # graph),
     file_changed |-> (r.w.file # file),
     last_save_changed |-> (r.w.last_save # last_save),
     synced |-> Reads(r.w.file, r.w.graph),
     added |-> node_count(r.w.graph) - node_count(graph),
     queued |-> queued, rejected |-> rejected,
     arg |-> IF "arg" \in DOMAIN r THEN r.arg ELSE <<>>,
     pre_session |-> current_session,
     pre_returned |-> max_returned]

\* The SessionManager is gone: dropped, or lost with its process.
Closed ==
    /\ open' = FALSE
    /\ graph' = EmptyGraph
    /\ current_session' = 0
    /\ dirty' = FALSE
    /\ last_save' = 0
    /\ now' = 0

\* The operations that return node ids.
NodeIdOps == {"add_event", "correct_node", "end_session_with_episode", "commit"}

\* The SessionManager and its file after a method returned r.
InstallCore(r) ==
    /\ file' = r.w.file
    /\ IF r.w.killed
       THEN Closed
       ELSE /\ open' = TRUE
            /\ graph' = r.w.graph
            /\ current_session' = r.w.current_session
            /\ dirty' = r.w.dirty
            /\ last_save' = 0
            /\ now' = now - r.w.last_save

\* The state after a method of the SessionManager returned r.
InstallTx(op, r, queued, rejected) ==
    /\ last' = Done(op, r, queued, rejected)
    /\ InstallCore(r)

Install(op, r) == InstallTx(op, r, 0, FALSE)

\* No call is in progress: the last one has returned to its caller.
Ready == last.op = "none"

\* SessionManager::open: the graph read from the file, or a new one.
LoadGraph(f) ==
    IF f = NoFile THEN [ok |-> TRUE, graph |-> EmptyGraph] ELSE read_from_file(f)

\* SessionManager::open
Open ==
    /\ Ready
    /\ ~open
    /\ \E n \in {next_session_id(LoadGraph(file).graph, overflow_checks) :
                     overflow_checks \in BOOLEAN} :
       LET r == LoadGraph(file)
           ok == r.ok /\ ~n.panicked
       IN /\ last' = [NoOp EXCEPT !.op = "open", !.ok = ok,
                                  !.panicked = (r.ok /\ n.panicked)]
          /\ IF ok
             THEN /\ open' = TRUE
                  /\ graph' = r.graph
                  /\ current_session' = n.id
                  /\ dirty' = FALSE
                  /\ now' = 0
                  /\ last_save' = now'
             ELSE UNCHANGED <<open, graph, current_session, dirty, last_save, now>>
    /\ UNCHANGED file

\* The edge targets a caller of add_event passes.
EdgeTargets == {<<>>, <<1>>, <<DanglingId>>, <<1, DanglingId>>}

AddEvent ==
    /\ Ready /\ open
    /\ node_count(graph) < MaxNodes
    /\ \E r \in {add_event(Self, valid, targets, io) :
                     valid \in BOOLEAN, targets \in EdgeTargets, io \in IoOutcomes} :
          Install("add_event", r)

CorrectNode ==
    /\ Ready /\ open
    /\ node_count(graph) < MaxNodes
    /\ \E r \in {correct_node(Self, old_node_id, io) :
                     old_node_id \in {1, DanglingId}, io \in IoOutcomes} :
          Install("correct_node", r)

\* The session_id argument of session_start: absent, the first id, or the
\* largest u32.
SessionIdOpts == {<<>>, <<1>>, <<U32_MAX>>}

\* The session_id argument of session_end: absent, or the first id.
EndIdOpts == {<<>>, <<1>>}

\* tools/session_start.rs execute
StartSession ==
    /\ Ready /\ open
    /\ \E r \in {start_session(Self, explicit_id, overflow_checks)
                        @@ [arg |-> explicit_id] :
                     explicit_id \in SessionIdOpts, overflow_checks \in BOOLEAN} :
          Install("start_session", r)

\* tools/session_end.rs execute
SessionEnd ==
    /\ Ready /\ open
    /\ \/ \E r \in {session_end(Self, <<>>, FALSE, TRUE, io) : io \in IoOutcomes} :
             Install("session_end", r)
       \/ /\ node_count(graph) < MaxNodes
          /\ \E r \in {session_end(Self, session_id, TRUE, engine_ok, io) :
                           session_id \in EndIdOpts, engine_ok \in BOOLEAN,
                           io \in IoOutcomes} :
                Install("end_session_with_episode", r)

Save ==
    /\ Ready /\ open
    /\ \E r \in {save(Self, io) : io \in IoOutcomes} :
          Install("save", r @@ [ret |-> <<>>])

MaybeAutoSave ==
    /\ Ready /\ open
    /\ \E r \in {maybe_auto_save(Self, io) : io \in IoOutcomes} :
          Install("maybe_auto_save", r @@ [ret |-> <<>>])

MarkDirty ==
    /\ Ready /\ open
    /\ Install("mark_dirty", [w |-> mark_dirty(Self), ok |-> TRUE, ret |-> <<>>])

\* spawn_autosave: one turn of the ticker's loop, under the session lock.
AutosaveTick ==
    /\ Ready /\ open
    /\ \E r \in {autosave_tick(Self, io) : io \in IoOutcomes} :
          Install("autosave_tick", r)

\* Transaction::new
tx_new == [events |-> <<>>, edges |-> <<>>]

\* Transaction::add_node
tx_add_node(t, event) == [t EXCEPT !.events = Append(@, event)]

\* Transaction::add_edge
tx_add_edge(t, edge) == [t EXCEPT !.edges = Append(@, edge)]

\* The events a caller queues: the caller chooses the session id.
TxEvents ==
    {[event_type |-> "fact", session_id |-> sid, valid |-> TRUE] : sid \in 1..MaxSession}

\* An event the engine rejects.
BadEvent == [event_type |-> "fact", session_id |-> 1, valid |-> FALSE]

\* The edges a caller queues: from the first node of the batch to the first
\* node of the graph or to a node that does not exist.
TxEdges ==
    {[source_id |-> node_count(graph) + 1, target_id |-> tgt,
      edge_type |-> "related_to"] : tgt \in {1, DanglingId}}

RECURSIVE TxGood(_)
\* The transactions that hold at most n events, all of them acceptable.
TxGood(n) ==
    IF n = 0 THEN {tx_new}
    ELSE TxGood(n - 1) \cup
         {tx_add_node(t, ev) : t \in {q \in TxGood(n - 1) : Len(q.events) = n - 1},
                               ev \in TxEvents}

\* The transactions of at most n events and at most one edge; an event the
\* engine rejects is queued last.
TxQueues(n) ==
    LET nodes == TxGood(n) \cup
                 {tx_add_node(t, BadEvent) : t \in {q \in TxGood(n) : Len(q.events) < n}}
    IN nodes \cup {tx_add_edge(t, e) : t \in nodes, e \in TxEdges}

\* A transaction on the SessionManager, from Transaction::new to
\* Transaction::commit: it borrows the SessionManager for all of that time.
Transact ==
    /\ Ready /\ open
    /\ \E c \in {<<commit(Self, t.events, t.edges, io), Len(t.events)>> :
                     t \in {q \in TxQueues(MaxTxEvents) :
                               node_count(graph) + Len(q.events) <= MaxNodes},
                     io \in IoOutcomes} :
          InstallTx("commit", c[1], c[2], c[1].rejected)

\* impl Drop for SessionManager
Drop ==
    /\ Ready /\ open
    /\ \E r \in {drop(Self, io) : io \in IoOutcomes} :
          /\ file' = r.w.file
          /\ last' = Done("drop", r, 0, FALSE)
    /\ Closed

\* Time passes while the SessionManager lives.
Tick ==
    /\ Ready /\ open
    /\ now + TickSecs <= MaxTime
    /\ now' = now + TickSecs
    /\ UNCHANGED <<open, graph, current_session, dirty, last_save, file, last>>

\* The last call has returned; its caller goes on.
Return ==
    /\ ~Ready
    /\ last' = NoOp
    /\ UNCHANGED <<open, graph, current_session, dirty, last_save, file, now>>

\* ------------------------------------------------------------------ Progress Tracker

\* HashMap::insert
MapInsert(a, k, v) == [x \in DOMAIN a \cup {k} |-> IF x = k THEN v ELSE a[x]]

\* HashMap::remove
MapRemove(a, k) == [x \in DOMAIN a \ {k} |-> a[x]]

\* ProgressTracker::start: the state the new token is tracked with.
tracker_start(a, token, total) ==
    MapInsert(a, token, [total |-> total, current |-> 0, cancelled |-> FALSE])

\* The JsonRpcNotification update() builds from its ProgressParams.
ProgressNotification(token, progress, total) ==
    [method |-> "notifications/progress", progress_token |-> token,
     progress |-> progress, total |-> total]

\* update() that also clears the cancelled flag of the token.
tracker_update_uncancels(a, token, current) ==
    IF token \in DOMAIN a
    THEN [active |-> [a EXCEPT ![token].current = current, ![token].cancelled = FALSE],
          sends |-> TRUE, total |-> a[token].total]
    ELSE [active |-> a, sends |-> FALSE, total |-> <<>>]

\* ProgressTracker::update, the part under the write lock: the new map,
\* whether a notification is built, and the total it carries. An unknown
\* token returns Ok(()) here.
tracker_update(a, token, current) ==
    IF token \in DOMAIN a
    THEN [active |-> [a EXCEPT ![token].current = current],
          sends |-> TRUE, total |-> a[token].total]
    ELSE [active |-> a, sends |-> FALSE, total |-> <<>>]

\* mpsc::Sender::send(..).await on the bounded channel: Err when the
\* Receiver is gone (the value is dropped), the value is queued when there
\* is room, and the call waits for room otherwise.
send(ch, alive, n) ==
    IF ~alive THEN [channel |-> ch, outcome |-> "closed"]
    ELSE IF Len(ch) < ChannelCapacity THEN [channel |-> Append(ch, n), outcome |-> "sent"]
    ELSE [channel |-> ch, outcome |-> "waits"]

\* ProgressTracker::cancel
cancel(a, token) ==
    IF token \in DOMAIN a THEN [a EXCEPT ![token].cancelled = TRUE] ELSE a

\* ProgressTracker::complete
complete(a, token) == MapRemove(a, token)

\* is_cancelled() answering false for a token that is not tracked.
is_cancelled_unknown_false(a, token) ==
    IF token \in DOMAIN a THEN a[token].cancelled ELSE FALSE

\* ProgressTracker::is_cancelled
is_cancelled(a, token) ==
    IF token \in DOMAIN a THEN a[token].cancelled ELSE TRUE

AnyToken == Tokens \cup {UnknownToken}

\* The caller of is_cancelled() has its answer and goes on.
Answered == asked = NotAsked

TrackerStart ==
    /\ Answered
    /\ next_token < MaxTokens
    /\ \E total \in Totals :
          active' = tracker_start(active, next_token + 1, total)
    /\ next_token' = next_token + 1
    /\ live' = live \cup {next_token + 1}
    /\ UNCHANGED <<channel, rx_alive, upd, asked>>

\* update() is called and runs up to its send: the map is changed under the
\* write lock and the lock is released.
TrackerUpdate ==
    /\ Answered
    /\ upd.pc = "idle"
    /\ \E token \in AnyToken, current \in ProgressValues :
          LET r == tracker_update(active, token, current) IN
          /\ active' = r.active
          /\ upd' = IF r.sends
                    THEN [pc |-> "sending", token |-> token, progress |-> current,
                          total |-> r.total]
                    ELSE NoUpdate
    /\ UNCHANGED <<channel, rx_alive, next_token, live, asked>>

\* The send of update() completes and update() returns Ok(()), whatever
\* the send returned.
TrackerSend ==
    /\ Answered
    /\ upd.pc = "sending"
    /\ LET r == send(channel, rx_alive,
                     ProgressNotification(upd.token, upd.progress, upd.total)) IN
          /\ r.outcome # "waits"
          /\ channel' = r.channel
    /\ upd' = NoUpdate
    /\ UNCHANGED <<active, rx_alive, next_token, live, asked>>

TrackerCancel ==
    /\ Answered
    /\ \E token \in AnyToken :
          /\ active' = cancel(active, token)
          /\ live' = live \ {token}
    /\ UNCHANGED <<channel, rx_alive, next_token, upd, asked>>

TrackerComplete ==
    /\ Answered
    /\ \E token \in AnyToken :
          /\ active' = complete(active, token)
          /\ live' = live \ {token}
    /\ UNCHANGED <<channel, rx_alive, next_token, upd, asked>>

TrackerIsCancelled ==
    /\ Answered
    /\ \E token \in AnyToken :
          asked' = [token |-> token, ret |-> is_cancelled(active, token),
                    called |-> TRUE]
    /\ UNCHANGED <<active, channel, rx_alive, next_token, live, upd>>

\* The transport takes one notification off the channel.
Recv ==
    /\ Answered
    /\ rx_alive
    /\ channel # <<>>
    /\ channel' = Tail(channel)
    /\ UNCHANGED <<active, rx_alive, next_token, live, upd, asked>>

\* The Receiver is dropped; what was buffered goes with it.
RxDrop ==
    /\ Answered
    /\ rx_alive
    /\ rx_alive' = FALSE
    /\ channel' = <<>>
    /\ UNCHANGED <<active, next_token, live, upd, asked>>

\* is_cancelled() returns its answer.
TrackerReturn ==
    /\ ~Answered
    /\ asked' = NotAsked
    /\ UNCHANGED <<active, channel, rx_alive, next_token, live, upd>>

\* ProgressTracker::new on a channel whose Receiver is alive.
InitTracker ==
    /\ active = <<>>
    /\ channel = <<>>
    /\ rx_alive = TRUE
    /\ next_token = 0
    /\ live = {}
    /\ upd = NoUpdate
    /\ asked = NotAsked

\* ------------------------------------------------------------------ Protocol Core

\* types/capabilities.rs MCP_VERSION
MCP_VERSION == "2024-11-05"

\* The error codes of InvalidRequest and MethodNotFound.
INVALID_REQUEST == -32600
METHOD_NOT_FOUND == -32601

\* The NegotiatedCapabilities value of the handler.
Negotiated == [client |-> client, initialized |-> initialized]

\* negotiate completing the handshake by itself.
negotiate_completes(nc, params) ==
    [nc |-> [nc EXCEPT !.client = params.capabilities, !.initialized = TRUE],
     ok |-> TRUE]

\* NegotiatedCapabilities::negotiate: a version other than the server's is
\* logged and the server's version is used.
negotiate(nc, params) ==
    [nc |-> [nc EXCEPT !.client = params.capabilities], ok |-> TRUE]

\* NegotiatedCapabilities::mark_initialized
mark_initialized(nc) ==
    [nc |-> [nc EXCEPT !.initialized = TRUE], ok |-> TRUE]

\* ensure_initialized without its check.
ensure_initialized_always(nc) == TRUE

\* NegotiatedCapabilities::ensure_initialized: TRUE for Ok, FALSE for
\* Err(InvalidRequest).
ensure_initialized(nc) == nc.initialized

\* The dispatch table: the registry operation a method is handed to.
DispatchTable ==
    [m \in {"tools/list", "tools/call", "resources/list", "resources/templates/list",
            "resources/read", "prompts/list", "prompts/get"} |->
        CASE m = "tools/list" -> "ToolRegistry.list"
          [] m = "tools/call" -> "ToolRegistry.call"
          [] m = "resources/list" -> "ResourceRegistry.list_resources"
          [] m = "resources/templates/list" -> "ResourceRegistry.list_templates"
          [] m = "resources/read" -> "ResourceRegistry.read"
          [] m = "prompts/list" -> "PromptRegistry.list"
          [] m = "prompts/get" -> "PromptRegistry.get"]

\* The registry operations that lock the Session Core.
LocksSession == {"ToolRegistry.call", "ResourceRegistry.read", "PromptRegistry.get"}

\* The registry operations that can fail, and the error kinds they fail
\* with (section 7 of the specification).
HandlerErrors(op) ==
    CASE op = "ToolRegistry.call" ->
             {"ToolNotFound", "InvalidParams", "NodeNotFound", "GraphEngineError", "IoError"}
      [] op = "ResourceRegistry.read" -> {"InvalidParams", "NodeNotFound", "SessionNotFound"}
      [] op = "PromptRegistry.get" -> {"PromptNotFound", "InvalidParams"}
      [] OTHER -> {}

\* McpError::code: the JSON-RPC code of an error kind.
ErrorCode(kind) ==
    CASE kind = "ParseError" -> -32700
      [] kind = "InvalidRequest" -> INVALID_REQUEST
      [] kind = "MethodNotFound" -> METHOD_NOT_FOUND
      [] kind = "InvalidParams" -> -32602
      [] kind = "InternalError" -> -32603
      [] kind = "ToolNotFound" -> -32001
      [] kind = "ResourceNotFound" -> -32002
      [] kind = "PromptNotFound" -> -32003
      [] kind = "NodeNotFound" -> -32010
      [] kind = "SessionNotFound" -> -32011
      [] kind = "GraphEngineError" -> -32020
      [] kind = "IoError" -> -32030
      [] kind = "TransportError" -> -32031

Answer(kind, method, id, result, code, dispatched) ==
    [kind |-> kind, method |-> method, id |-> id, result |-> result, code |-> code,
     dispatched |-> dispatched, error_kind |-> "none", logged |-> FALSE]

NoReply == Answer("none", "none", 0, "none", 0, "none") @@ [msg_id |-> 0]

\* JsonRpcResponse::new: the success response to the request id.
to_json_rpc_result(method, id, dispatched) ==
    Answer("request", method, id, "result", 0, dispatched)

\* Every error answered as InternalError.
to_json_rpc_error_internal(kind, method, id, dispatched) ==
    [Answer("request", method, id, "error", ErrorCode("InternalError"), dispatched)
        EXCEPT !.error_kind = kind]

\* McpError::to_json_rpc_error: the error response to the request id, with
\* the code of the error kind.
to_json_rpc_error(kind, method, id, dispatched) ==
    [Answer("request", method, id, "error", ErrorCode(kind), dispatched)
        EXCEPT !.error_kind = kind]

\* No method answered whatever the state.
NoStateFreeMethods == {}

\* The methods answered in every handshake state.
StateFreeMethods == {"ping"}

\* A server that goes on serving after shutdown.
shutdown_ignored(down) == FALSE

\* The check that refuses requests once shutdown was answered.
shutdown_requested(down) == down

\* ProtocolHandler::handle_request: the response to a request and the state
\* it leaves. outcome is what the registry operation returns when the
\* request is dispatched: "ok" or an error kind.
handle_request(nc, down, method, id, params, outcome) ==
    IF method \in StateFreeMethods
    THEN [nc |-> nc, down |-> down, reply |-> to_json_rpc_result(method, id, "none")]
    ELSE IF shutdown_requested(down)
    THEN [nc |-> nc, down |-> down,
          reply |-> to_json_rpc_error("InvalidRequest", method, id, "none")]
    ELSE IF method = "initialize"
    THEN LET r == negotiate(nc, params) IN
         [nc |-> r.nc, down |-> down, reply |-> to_json_rpc_result(method, id, "none")]
    ELSE IF ~ensure_initialized(nc)
    THEN [nc |-> nc, down |-> down,
          reply |-> to_json_rpc_error("InvalidRequest", method, id, "none")]
    ELSE IF method = "shutdown"
    THEN [nc |-> nc, down |-> TRUE, reply |-> to_json_rpc_result(method, id, "none")]
    ELSE IF method = "ping"
    THEN [nc |-> nc, down |-> down, reply |-> to_json_rpc_result(method, id, "none")]
    ELSE IF method \in DOMAIN DispatchTable
    THEN [nc |-> nc, down |-> down,
          reply |-> IF outcome \in HandlerErrors(DispatchTable[method])
                    THEN to_json_rpc_error(outcome, method, id, DispatchTable[method])
                    ELSE to_json_rpc_result(method, id, DispatchTable[method])]
    ELSE [nc |-> nc, down |-> down,
          reply |-> to_json_rpc_error("MethodNotFound", method, id, "none")]

\* A handler that answers a notification whose handling failed.
handle_notification_answers_errors(nc, down, method, fails) ==
    IF fails
    THEN [nc |-> nc, down |-> down,
          reply |-> [to_json_rpc_error("InvalidParams", method, 0, "none")
                        EXCEPT !.kind = "notification"]]
    ELSE [nc |-> IF method = "initialized" THEN mark_initialized(nc).nc ELSE nc,
          down |-> down,
          reply |-> Answer("notification", method, 0, "none", 0, "none")]

\* ProtocolHandler::handle_notification: a notification is never answered;
\* when its handling fails the error is logged.
handle_notification(nc, down, method, fails) ==
    IF fails
    THEN [nc |-> nc, down |-> down,
          reply |-> [Answer("notification", method, 0, "none", 0, "none")
                        EXCEPT !.logged = TRUE]]
    ELSE IF method = "initialized"
    THEN [nc |-> mark_initialized(nc).nc, down |-> down,
          reply |-> Answer("notification", method, 0, "none", 0, "none")]
    ELSE [nc |-> nc, down |-> down,
          reply |-> Answer("notification", method, 0, "none", 0, "none")]

\* SseTransport::handle_request: the body of the HTTP answer to a message,
\* the response when there is one and the JSON null otherwise.
sse_body(r) == IF r.result = "none" THEN "null" ELSE r.result

RequestMethods ==
    DOMAIN DispatchTable \cup {"initialize", "ping", "shutdown", "no/such/method"}

NotificationMethods == {"initialized", "$/cancelRequest", "no/such/notification"}

RequestIds == {1, 2}

ClientCaps == {"default", "roots", "sampling"}

\* What a registry operation can return.
HandlerOutcomes == {"ok", "InvalidParams", "NodeNotFound", "IoError"}

InstallReply(r, msg_id) ==
    /\ client' = r.nc.client
    /\ initialized' = r.nc.initialized
    /\ shutting_down' = r.down
    /\ reply' = r.reply @@ [msg_id |-> msg_id]

\* ProtocolHandler::handle_message on a request
HandleRequest ==
    /\ \E method \in RequestMethods, id \in RequestIds, caps \in ClientCaps,
          version \in {MCP_VERSION, "1999-01-01"}, outcome \in HandlerOutcomes :
          InstallReply(handle_request(Negotiated, shutting_down, method, id,
                                      [protocol_version |-> version,
                                       capabilities |-> caps], outcome), id)
    /\ UNCHANGED trackVars

\* ProtocolHandler::handle_message on a notification; $/cancelRequest
\* cancels the progress token it names.
HandleNotification ==
    \E method \in NotificationMethods, fails \in BOOLEAN, token \in AnyToken :
       /\ InstallReply(handle_notification(Negotiated, shutting_down, method, fails), 0)
       /\ active' = IF method = "$/cancelRequest" /\ ~fails
                    THEN cancel(active, token) ELSE active
       /\ live' = IF method = "$/cancelRequest" /\ ~fails THEN live \ {token} ELSE live
       /\ UNCHANGED <<channel, rx_alive, next_token, upd, asked>>

Init ==
    /\ open = FALSE
    /\ graph = EmptyGraph
    /\ current_session = 0
    /\ dirty = FALSE
    /\ last_save = 0
    /\ file = NoFile
    /\ now = 0
    /\ last = NoOp
    /\ max_returned = 0
    /\ initialized = FALSE
    /\ client = "default"
    /\ shutting_down = FALSE
    /\ reply = NoReply
    /\ mutex = Free
    /\ pc = [h \in Handlers |-> "idle"]
    /\ seen = [h \in Handlers |-> EmptyGraph]
    /\ got = [h \in Handlers |-> NotReturned]
    /\ order = <<>>
    /\ ticker = "absent"
    /\ logged = FALSE
    /\ owners = {}
    /\ readers = [r \in Readers |-> NoReader]
    /\ InitTracker

Next ==
    \/ (Open /\ UNCHANGED <<protoVars, taskVars, readerVars, trackVars, max_returned>>)
    \/ (AddEvent /\ UNCHANGED <<protoVars, taskVars, readerVars, trackVars, max_returned>>)
    \/ (CorrectNode /\ UNCHANGED <<protoVars, taskVars, readerVars, trackVars, max_returned>>)
    \/ (StartSession /\ UNCHANGED <<protoVars, taskVars, readerVars, trackVars, max_returned>>)
    \/ (SessionEnd /\ UNCHANGED <<protoVars, taskVars, readerVars, trackVars, max_returned>>)
    \/ (Save /\ UNCHANGED <<protoVars, taskVars, readerVars, trackVars, max_returned>>)
    \/ (MaybeAutoSave /\ UNCHANGED <<protoVars, taskVars, readerVars, trackVars, max_returned>>)
    \/ (MarkDirty /\ UNCHANGED <<protoVars, taskVars, readerVars, trackVars, max_returned>>)
    \/ (AutosaveTick /\ UNCHANGED <<protoVars, taskVars, readerVars, trackVars, max_returned>>)
    \/ (Transact /\ UNCHANGED <<protoVars, taskVars, readerVars, trackVars, max_returned>>)
    \/ (Drop /\ UNCHANGED <<protoVars, taskVars, readerVars, trackVars, max_returned>>)
    \/ (Tick /\ UNCHANGED <<protoVars, taskVars, readerVars, trackVars, max_returned>>)
    \/ (Return /\ UNCHANGED <<protoVars, taskVars, readerVars, trackVars, max_returned>>)

Spec == Init /\ [][Next]_vars

\* The largest node id returned so far, after the step: none for a new
\* SessionManager.
TrackIds ==
    max_returned' =
        IF ~open' \/ last'.op = "open" THEN 0
        ELSE IF last'.op \in NodeIdOps
             THEN Max({max_returned} \cup {last'.ret[i] : i \in 1..Len(last'.ret)})
             ELSE max_returned

\* The operations that add nodes, with the node ids they return followed.
NextIds ==
    \/ (Open /\ TrackIds /\ UNCHANGED <<protoVars, taskVars, readerVars, trackVars>>)
    \/ (AddEvent /\ TrackIds /\ UNCHANGED <<protoVars, taskVars, readerVars, trackVars>>)
    \/ (CorrectNode /\ TrackIds /\ UNCHANGED <<protoVars, taskVars, readerVars, trackVars>>)
    \/ (SessionEnd /\ TrackIds /\ UNCHANGED <<protoVars, taskVars, readerVars, trackVars>>)
    \/ (Transact /\ TrackIds /\ UNCHANGED <<protoVars, taskVars, readerVars, trackVars>>)
    \/ (Drop /\ TrackIds /\ UNCHANGED <<protoVars, taskVars, readerVars, trackVars>>)
    \/ (Tick /\ TrackIds /\ UNCHANGED <<protoVars, taskVars, readerVars, trackVars>>)
    \/ (Return /\ TrackIds /\ UNCHANGED <<protoVars, taskVars, readerVars, trackVars>>)

SpecIds == Init /\ [][NextIds]_vars

\* The Protocol Core alone: the messages a transport delivers, in any order.
NextProtocol ==
    \/ (HandleRequest /\ UNCHANGED <<sessVars, taskVars, readerVars>>)
    \/ (HandleNotification /\ UNCHANGED <<sessVars, taskVars, readerVars>>)

SpecProtocol == Init /\ [][NextProtocol]_vars

\* ------------------------------------------------------------------ tasks

\* How a write ends while the process lives on.
TaskIo == {"ok", "fail"}

\* tokio::sync::Mutex::lock().await: completes once nobody holds the Mutex.
lock(m, t) == [granted |-> m = Free, mutex |-> IF m = Free THEN t ELSE m]

\* A tool call gets the lock: session.lock().await at the top of execute.
HandlerLock(h) ==
    /\ open /\ "server" \in owners
    /\ pc[h] = "idle"
    /\ lock(mutex, HandlerTask(h)).granted
    /\ mutex' = lock(mutex, HandlerTask(h)).mutex
    /\ pc' = [pc EXCEPT ![h] = "locked"]
    /\ seen' = [seen EXCEPT ![h] = graph]
    /\ order' = Append(order, h)
    /\ UNCHANGED <<open, graph, current_session, dirty, last_save, file, now,
                   got, ticker, logged, owners>>
    /\ UNCHANGED <<last, max_returned, protoVars, readerVars, trackVars>>

\* memory_add: add_event on the graph the call found, then the guard is
\* dropped and the call returns.
HandlerAdd(h) ==
    /\ open
    /\ pc[h] = "locked"
    /\ \E r \in {add_event([Self EXCEPT !.graph = seen[h]], valid, <<>>, io) :
                     valid \in BOOLEAN, io \in TaskIo} :
          /\ InstallCore(r)
          /\ got' = [got EXCEPT ![h] = [returned |-> TRUE, ok |-> r.ok,
                                        id |-> IF r.ret = <<>> THEN 0 ELSE r.ret[1]]]
    /\ pc' = [pc EXCEPT ![h] = "done"]
    /\ seen' = [seen EXCEPT ![h] = EmptyGraph]
    /\ mutex' = Free
    /\ UNCHANGED <<order, ticker, logged, owners>>
    /\ UNCHANGED <<last, max_returned, protoVars, readerVars, trackVars>>

\* spawn_autosave: ticker.tick().await, then session.lock().await.
TickerLock ==
    /\ open /\ "ticker" \in owners
    /\ ticker = "sleeping"
    /\ lock(mutex, TickerTask).granted
    /\ mutex' = lock(mutex, TickerTask).mutex
    /\ ticker' = "locked"
    /\ UNCHANGED <<open, graph, current_session, dirty, last_save, file, now,
                   pc, seen, got, order, logged, owners>>
    /\ UNCHANGED <<last, max_returned, protoVars, readerVars, trackVars>>

\* spawn_autosave: maybe_auto_save under the lock; the guard is dropped at the
\* end of the turn.
TickerSave(io) ==
    /\ open
    /\ ticker = "locked"
    /\ LET r == autosave_tick(Self, io) IN
          /\ InstallCore(r)
          /\ logged' = r.logged
          /\ ticker' = IF r.running THEN "sleeping" ELSE "ended"
    /\ mutex' = Free
    /\ UNCHANGED <<pc, seen, got, order, owners>>
    /\ UNCHANGED <<last, max_returned, protoVars, readerVars, trackVars>>

\* Time passes.
TimePasses ==
    /\ open
    /\ now + TickSecs <= MaxTime
    /\ now' = now + TickSecs
    /\ UNCHANGED <<open, graph, current_session, dirty, last_save, file>>
    /\ UNCHANGED taskVars
    /\ UNCHANGED <<last, max_returned, protoVars, readerVars, trackVars>>

\* The server lets go of its Arc once no tool call is inside; the
\* SessionManager is dropped when that was the last strong Arc.
ServerRelease ==
    /\ open /\ "server" \in owners
    /\ \A h \in Handlers : pc[h] # "locked"
    /\ owners' = owners \ {"server"}
    /\ IF owners' = {}
       THEN /\ \E r \in {drop(Self, io) : io \in TaskIo} : file' = r.w.file
            /\ Closed
       ELSE UNCHANGED <<open, graph, current_session, dirty, last_save, file, now>>
    /\ UNCHANGED <<mutex, pc, seen, got, order, ticker, logged>>
    /\ UNCHANGED <<last, max_returned, protoVars, readerVars, trackVars>>

\* main: SessionManager::open on a missing file, Arc::new(Mutex::new(session)),
\* with or without spawn_autosave(session.clone(), interval).
InitTasks ==
    /\ open = TRUE
    /\ graph = EmptyGraph
    /\ current_session = 1
    /\ dirty = FALSE
    /\ last_save = 0
    /\ file = NoFile
    /\ now = 0
    /\ last = NoOp
    /\ max_returned = 0
    /\ initialized = FALSE
    /\ client = "default"
    /\ shutting_down = FALSE
    /\ reply = NoReply
    /\ mutex = Free
    /\ pc = [h \in Handlers |-> "idle"]
    /\ seen = [h \in Handlers |-> EmptyGraph]
    /\ got = [h \in Handlers |-> NotReturned]
    /\ order = <<>>
    /\ logged = FALSE
    /\ owners \in {{"server"}, {"server", "ticker"}}
    /\ readers = [r \in Readers |-> NoReader]
    /\ InitTracker
    /\ ticker = IF "ticker" \in owners THEN "sleeping" ELSE "absent"

NextTasks ==
    \/ \E h \in Handlers : HandlerLock(h)
    \/ \E h \in Handlers : HandlerAdd(h)
    \/ TickerLock
    \/ \E io \in TaskIo : TickerSave(io)
    \/ TimePasses
    \/ ServerRelease

SpecTasks == InitTasks /\ [][NextTasks]_vars

\* The scheduler is fair to every task, the clock advances, and a write
\* that is tried again and again succeeds in the end.
SpecTasksFair ==
    /\ SpecTasks
    /\ WF_vars(TimePasses)
    /\ WF_vars(TickerLock)
    /\ \A h \in Handlers : WF_vars(HandlerAdd(h))
    /\ SF_vars(TickerSave("ok"))

\* ------------------------------------------------------------------ readers

\* memory_query reaching the graph through graph_mut().
memory_query_mut(w) ==
    [w |-> graph_mut(w), ok |-> TRUE,
     ret |-> [tool |-> "memory_query", nodes |-> w.graph.nodes,
              node_count |-> 0, edge_count |-> 0]]

\* tools/memory_query.rs execute: the nodes of the graph, through
\* session.graph().
memory_query(w) ==
    [w |-> w, ok |-> TRUE,
     ret |-> [tool |-> "memory_query", nodes |-> w.graph.nodes,
              node_count |-> 0, edge_count |-> 0]]

\* tools/memory_stats.rs execute: the counts, through session.graph().
memory_stats(w) ==
    [w |-> w, ok |-> TRUE,
     ret |-> [tool |-> "memory_stats", nodes |-> <<>>,
              node_count |-> node_count(w.graph),
              edge_count |-> edge_count(w.graph)]]

\* The SessionManager of reader r and the file, as one value.
ReaderSelf(r) ==
    [graph |-> readers[r].graph, current_session |-> readers[r].current_session,
     dirty |-> readers[r].dirty, last_save |-> 0, file |-> file,
     writes |-> 0, attempts |-> 0, killed |-> FALSE, panicked |-> FALSE]

\* SessionManager::open by reader r.
ReaderOpen(r) ==
    /\ ~readers[r].open
    /\ LoadGraph(file).ok
    /\ readers' = [readers EXCEPT ![r] =
          [@ EXCEPT !.open = TRUE,
                    !.graph = LoadGraph(file).graph,
                    !.current_session = next_session_id(LoadGraph(file).graph, FALSE).id,
                    !.dirty = FALSE]]
    /\ UNCHANGED file

\* The state of reader r after a read tool returned res.
ReaderInstall(r, res) ==
    /\ readers' = [readers EXCEPT ![r] =
          [@ EXCEPT !.graph = res.w.graph, !.dirty = res.w.dirty,
                    !.attempts = @ + res.w.attempts, !.seen = res.ret]]
    /\ file' = res.w.file

ReaderQuery(r) ==
    /\ readers[r].open
    /\ ReaderInstall(r, memory_query(ReaderSelf(r)))

ReaderStats(r) ==
    /\ readers[r].open
    /\ ReaderInstall(r, memory_stats(ReaderSelf(r)))

\* The reader's handler goes away: impl Drop for SessionManager.
ReaderDrop(r) ==
    /\ readers[r].open
    /\ \E d \in {drop(ReaderSelf(r), io) : io \in TaskIo} :
          /\ readers' = [readers EXCEPT ![r] =
                [@ EXCEPT !.open = FALSE, !.graph = EmptyGraph,
                          !.current_session = 0, !.dirty = FALSE,
                          !.attempts = @ + d.w.attempts]]
          /\ file' = d.w.file

RECURSIVE Facts(_)
\* The graph of n facts added in session 1.
Facts(n) ==
    IF n = 0 THEN EmptyGraph
    ELSE [Facts(n - 1) EXCEPT
            !.nodes = Append(@, [event_type |-> "fact", session_id |-> 1])]

\* A memory file seeded by a writer that added facts, ended its session with
\* create_episode = false and went away; no Session Core is open on it.
InitReaders ==
    /\ open = FALSE
    /\ graph = EmptyGraph
    /\ current_session = 0
    /\ dirty = FALSE
    /\ last_save = 0
    /\ file \in {Encode(Facts(n)) : n \in 1..MaxNodes}
    /\ now = 0
    /\ last = NoOp
    /\ max_returned = 0
    /\ initialized = FALSE
    /\ client = "default"
    /\ shutting_down = FALSE
    /\ reply = NoReply
    /\ mutex = Free
    /\ pc = [h \in Handlers |-> "idle"]
    /\ seen = [h \in Handlers |-> EmptyGraph]
    /\ got = [h \in Handlers |-> NotReturned]
    /\ order = <<>>
    /\ ticker = "absent"
    /\ logged = FALSE
    /\ owners = {}
    /\ readers = [r \in Readers |-> NoReader]
    /\ InitTracker

NextReaders ==
    \/ \E r \in Readers : ReaderOpen(r) /\ UNCHANGED <<open, graph, current_session,
          dirty, last_save, now, last, max_returned, protoVars, taskVars, trackVars>>
    \/ \E r \in Readers : ReaderQuery(r) /\ UNCHANGED <<open, graph, current_session,
          dirty, last_save, now, last, max_returned, protoVars, taskVars, trackVars>>
    \/ \E r \in Readers : ReaderStats(r) /\ UNCHANGED <<open, graph, current_session,
          dirty, last_save, now, last, max_returned, protoVars, taskVars, trackVars>>
    \/ \E r \in Readers : ReaderDrop(r) /\ UNCHANGED <<open, graph, current_session,
          dirty, last_save, now, last, max_returned, protoVars, taskVars, trackVars>>

SpecReaders == InitReaders /\ [][NextReaders]_vars

NextTracker ==
    \/ (TrackerStart /\ UNCHANGED <<sessVars, protoVars, taskVars, readerVars>>)
    \/ (TrackerUpdate /\ UNCHANGED <<sessVars, protoVars, taskVars, readerVars>>)
    \/ (TrackerSend /\ UNCHANGED <<sessVars, protoVars, taskVars, readerVars>>)
    \/ (TrackerCancel /\ UNCHANGED <<sessVars, protoVars, taskVars, readerVars>>)
    \/ (TrackerComplete /\ UNCHANGED <<sessVars, protoVars, taskVars, readerVars>>)
    \/ (TrackerIsCancelled /\ UNCHANGED <<sessVars, protoVars, taskVars, readerVars>>)
    \/ (Recv /\ UNCHANGED <<sessVars, protoVars, taskVars, readerVars>>)
    \/ (RxDrop /\ UNCHANGED <<sessVars, protoVars, taskVars, readerVars>>)
    \/ (TrackerReturn /\ UNCHANGED <<sessVars, protoVars, taskVars, readerVars>>)

SpecTracker == Init /\ [][NextTracker]_vars

\* ------------------------------------------------------------------ resources

\* A URI is the sequence of its characters.
NODE_PREFIX ==
    <<"a", "m", "e", "m", ":", "/", "/", "n", "o", "d", "e", "/">>
SESSION_PREFIX ==
    <<"a", "m", "e", "m", ":", "/", "/", "s", "e", "s", "s", "i", "o", "n", "/">>
TYPES_PREFIX ==
    <<"a", "m", "e", "m", ":", "/", "/", "t", "y", "p", "e", "s", "/">>
GRAPH_STATS ==
    <<"a", "m", "e", "m", ":", "/", "/", "g", "r", "a", "p", "h", "/", "s", "t", "a", "t", "s">>
GRAPH_RECENT ==
    <<"a", "m", "e", "m", ":", "/", "/", "g", "r", "a", "p", "h", "/", "r", "e", "c", "e", "n", "t">>
GRAPH_IMPORTANT ==
    <<"a", "m", "e", "m", ":", "/", "/", "g", "r", "a", "p", "h", "/", "i", "m", "p", "o", "r", "t", "a", "n", "t">>

\* templates::list_resources: the URIs of the concrete resources.
list_resources == <<GRAPH_STATS, GRAPH_RECENT, GRAPH_IMPORTANT>>

\* templates::list_templates: the URI templates.
list_templates ==
    <<NODE_PREFIX \o <<"{", "i", "d", "}">>,
      SESSION_PREFIX \o <<"{", "i", "d", "}">>,
      TYPES_PREFIX \o <<"{", "t", "y", "p", "e", "}">>>>

\* A template with its variable replaced by value (the variable ends the
\* template).
expand(template, value) ==
    LET i == CHOOSE k \in 1..Len(template) : template[k] = "{"
    IN SubSeq(template, 1, i - 1) \o value

\* str::strip_prefix: <<rest>> for Some(rest), <<>> for None.
strip_prefix(str, prefix) ==
    IF Len(str) >= Len(prefix) /\ SubSeq(str, 1, Len(prefix)) = prefix
    THEN <<SubSeq(str, Len(prefix) + 1, Len(str))>>
    ELSE <<>>

DigitChars == <<"0", "1", "2", "3", "4", "5", "6", "7", "8", "9">>

\* char::to_digit(10), -1 for None.
DigitOf(ch) ==
    IF \E d \in 1..10 : DigitChars[d] = ch
    THEN (CHOOSE d \in 1..10 : DigitChars[d] = ch) - 1
    ELSE -1

\* The decimal digits of u64::MAX and of u32::MAX.
U64_MAX_DIGITS == <<"1", "8", "4", "4", "6", "7", "4", "4", "0", "7", "3", "7", "0", "9", "5", "5", "1", "6", "1", "5">>
U32_MAX_DIGITS == <<"4", "2", "9", "4", "9", "6", "7", "2", "9", "5">>

RECURSIVE StripZeros(_)
\* A digit string without its leading zeros (empty for zero).
StripZeros(d) ==
    IF d # <<>> /\ Head(d) = "0" THEN StripZeros(Tail(d)) ELSE d

RECURSIVE DigitsLeq(_, _)
\* a <= b for two digit strings without leading zeros.
DigitsLeq(a, b) ==
    IF Len(a) # Len(b) THEN Len(a) < Len(b)
    ELSE IF a = <<>> THEN TRUE
    ELSE IF DigitOf(Head(a)) # DigitOf(Head(b)) THEN DigitOf(Head(a)) < DigitOf(Head(b))
    ELSE DigitsLeq(Tail(a), Tail(b))

\* A parse that skips what is not a digit.
parse_unsigned_lenient(str, max_digits) ==
    [ok |-> TRUE, digits |-> StripZeros(SelectSeq(str, LAMBDA ch : DigitOf(ch) >= 0))]

\* str::parse::<u64>() and str::parse::<u32>(): an optional +, then one
\* or more decimal digits, the value at most the largest of the type.
parse_unsigned(str, max_digits) ==
    LET body == IF str # <<>> /\ Head(str) = "+" THEN Tail(str) ELSE str IN
    IF body = <<>> \/ \E i \in 1..Len(body) : DigitOf(body[i]) < 0
    THEN [ok |-> FALSE, digits |-> <<>>]
    ELSE IF DigitsLeq(StripZeros(body), max_digits)
    THEN [ok |-> TRUE, digits |-> StripZeros(body)]
    ELSE [ok |-> FALSE, digits |-> <<>>]

RECURSIVE Value(_, _)
\* The number a digit string denotes, acc being the value of the digits
\* already read.
Value(d, acc) ==
    IF d = <<>> THEN acc ELSE Value(Tail(d), 10 * acc + DigitOf(Head(d)))

\* The u64 a digit string denotes; every id of three digits or more is
\* beyond the nodes of the graph and stands for itself as 1000.
U64Of(d) == IF Len(d) <= 2 THEN Value(d, 0) ELSE 1000

\* The u32 a digit string denotes, as the bit pattern the model keeps.
U32Of(d) ==
    IF d = U32_MAX_DIGITS THEN U32_MAX
    ELSE IF Len(d) <= 2 THEN Value(d, 0) ELSE I32_MAX

RECURSIVE Decimal(_)
\* format!("{n}") for 0 <= n.
Decimal(n) ==
    IF n < 10 THEN <<DigitChars[n + 1]>>
    ELSE Decimal(n \div 10) \o <<DigitChars[(n % 10) + 1]>>

\* format!("{id}") for a u32 kept as a bit pattern.
FormatU32(x) == IF x = U32_MAX THEN U32_MAX_DIGITS ELSE Decimal(x)

\* EventType::name of the six event types.
EventTypeChars ==
    [n \in {"fact", "decision", "inference", "correction", "skill", "episode"} |->
        CASE n = "fact" -> <<"f", "a", "c", "t">>
          [] n = "decision" -> <<"d", "e", "c", "i", "s", "i", "o", "n">>
          [] n = "inference" -> <<"i", "n", "f", "e", "r", "e", "n", "c", "e">>
          [] n = "correction" -> <<"c", "o", "r", "r", "e", "c", "t", "i", "o", "n">>
          [] n = "skill" -> <<"s", "k", "i", "l", "l">>
          [] n = "episode" -> <<"e", "p", "i", "s", "o", "d", "e">>]

\* EventType::from_name: <<type>> for Some, <<>> for None.
from_name(type_name) ==
    IF \E n \in DOMAIN EventTypeChars : EventTypeChars[n] = type_name
    THEN <<CHOOSE n \in DOMAIN EventTypeChars : EventTypeChars[n] = type_name>>
    ELSE <<>>

\* Ok(ReadResourceResult { contents: vec![one item] })
ReadOk(w, uri, text) ==
    [w |-> w, ok |-> TRUE,
     ret |-> [error |-> "none", contents |-> <<[uri |-> uri, text |-> text]>>]]

\* Err(kind)
ReadErr(w, kind) ==
    [w |-> w, ok |-> FALSE, ret |-> [error |-> kind, contents |-> <<>>]]

\* resources/node.rs read_node
read_node(id, w) ==
    IF id \in NodeIds(w.graph)
    THEN ReadOk(w, NODE_PREFIX \o Decimal(id),
                [id |-> id, event_type |-> w.graph.nodes[id].event_type,
                 session_id |-> w.graph.nodes[id].session_id,
                 outgoing |-> {e \in w.graph.edges : e.source_id = id},
                 incoming |-> {e \in w.graph.edges : e.target_id = id}])
    ELSE ReadErr(w, "NodeNotFound")

\* read_session answering an empty session with an empty list.
read_session_lists_empty(id, w) ==
    LET node_ids == {i \in NodeIds(w.graph) : w.graph.nodes[i].session_id = id} IN
    ReadOk(w, SESSION_PREFIX \o FormatU32(id),
           [session_id |-> id, node_count |-> Cardinality(node_ids), nodes |-> node_ids])

\* resources/session.rs read_session
read_session(id, w) ==
    LET node_ids == {i \in NodeIds(w.graph) : w.graph.nodes[i].session_id = id} IN
    IF node_ids = {}
    THEN ReadErr(w, "SessionNotFound")
    ELSE ReadOk(w, SESSION_PREFIX \o FormatU32(id),
                [session_id |-> id, node_count |-> Cardinality(node_ids),
                 nodes |-> node_ids])

\* resources/type_index.rs read_type
read_type(type_name, w) ==
    IF from_name(type_name) = <<>>
    THEN ReadErr(w, "InvalidParams")
    ELSE LET node_ids == {i \in NodeIds(w.graph) :
                             w.graph.nodes[i].event_type = from_name(type_name)[1]} IN
         ReadOk(w, TYPES_PREFIX \o type_name,
                [event_type |-> type_name, count |-> Cardinality(node_ids),
                 nodes |-> node_ids])

\* resources/graph.rs read_stats
read_stats(w) ==
    ReadOk(w, GRAPH_STATS,
           [node_count |-> node_count(w.graph), edge_count |-> edge_count(w.graph),
            session_count |-> Cardinality(session_ids(w.graph))])

\* resources/graph.rs read_recent
read_recent(w) ==
    ReadOk(w, GRAPH_RECENT, [count |-> node_count(w.graph), nodes |-> NodeIds(w.graph)])

\* resources/graph.rs read_important
read_important(w) ==
    ReadOk(w, GRAPH_IMPORTANT, [count |-> node_count(w.graph), nodes |-> NodeIds(w.graph)])

\* ResourceRegistry::read
read(uri, w) ==
    IF strip_prefix(uri, NODE_PREFIX) # <<>>
    THEN LET id == parse_unsigned(strip_prefix(uri, NODE_PREFIX)[1], U64_MAX_DIGITS) IN
         IF ~id.ok THEN ReadErr(w, "InvalidParams") ELSE read_node(U64Of(id.digits), w)
    ELSE IF strip_prefix(uri, SESSION_PREFIX) # <<>>
    THEN LET id == parse_unsigned(strip_prefix(uri, SESSION_PREFIX)[1], U32_MAX_DIGITS) IN
         IF ~id.ok THEN ReadErr(w, "InvalidParams") ELSE read_session(U32Of(id.digits), w)
    ELSE IF strip_prefix(uri, TYPES_PREFIX) # <<>>
    THEN read_type(strip_prefix(uri, TYPES_PREFIX)[1], w)
    ELSE IF uri = GRAPH_STATS THEN read_stats(w)
    ELSE IF uri = GRAPH_RECENT THEN read_recent(w)
    ELSE IF uri = GRAPH_IMPORTANT THEN read_important(w)
    ELSE ReadErr(w, "ResourceNotFound")

\* The node ids and the session ids the templates are expanded with: those
\* of the graph, and some that no graph of the model has.
NodeIdProbes == 0..(MaxNodes + 1)
SessionIdProbes == {0, 1, 2, 3, U32_MAX}

\* URIs with an unknown scheme, or matching no prefix and no concrete URI.
UnknownUris ==
    {<<"h", "t", "t", "p", ":", "/", "/", "g", "r", "a", "p", "h", "/", "s", "t", "a", "t", "s">>,
     <<"a", "m", "e", "m", ":", "/", "/", "n", "o", "n", "e", "x", "i", "s", "t", "e", "n", "t", "/", "r", "e", "s", "o", "u", "r", "c", "e">>,
     <<"a", "m", "e", "m", ":", "/", "/", "n", "o", "d", "e">>,
     GRAPH_STATS \o <<"/">>,
     <<"a", "m", "e", "m", ":", "/", "/">>,
     <<>>}

\* URIs of a node or a session whose id does not parse.
BadIdUris ==
    {NODE_PREFIX \o <<"a", "b", "c">>,
     NODE_PREFIX,
     NODE_PREFIX \o <<"-", "1">>,
     NODE_PREFIX \o <<"1", "/", "2">>,
     NODE_PREFIX \o <<"1", "8", "4", "4", "6", "7", "4", "4", "0", "7", "3", "7", "0", "9", "5", "5", "1", "6", "1", "6">>,
     SESSION_PREFIX \o <<"x">>,
     SESSION_PREFIX \o <<"4", "2", "9", "4", "9", "6", "7", "2", "9", "6">>,
     SESSION_PREFIX \o <<"1", ".", "0">>}

\* The URIs a client asks for.
ResourceUris ==
    {list_resources[i] : i \in 1..Len(list_resources)}
    \cup {expand(list_templates[1], Decimal(id)) : id \in NodeIdProbes}
    \cup {expand(list_templates[2], FormatU32(id)) : id \in SessionIdProbes}
    \cup {expand(list_templates[3], EventTypeChars[n]) : n \in DOMAIN EventTypeChars}
    \cup {NODE_PREFIX \o <<"+", "1">>, NODE_PREFIX \o <<"0", "1">>,
          TYPES_PREFIX \o <<"b", "o", "g", "u", "s">>}
    \cup UnknownUris \cup BadIdUris

\* resources/read
ResourceRead ==
    /\ Ready /\ open
    /\ \E r \in {read(uri, Self) @@ [arg |-> uri] : uri \in ResourceUris} :
          Install("resources/read", r)

NextResources ==
    \/ (Open /\ UNCHANGED <<protoVars, taskVars, readerVars, trackVars, max_returned>>)
    \/ (AddEvent /\ UNCHANGED <<protoVars, taskVars, readerVars, trackVars, max_returned>>)
    \/ (StartSession /\ UNCHANGED <<protoVars, taskVars, readerVars, trackVars, max_returned>>)
    \/ (ResourceRead /\ UNCHANGED <<protoVars, taskVars, readerVars, trackVars, max_returned>>)
    \/ (Return /\ UNCHANGED <<protoVars, taskVars, readerVars, trackVars, max_returned>>)

SpecResources == Init /\ [][NextResources]_vars

\* ------------------------------------------------------------------ tools

\* QueryEngine::similarity: the nodes that match query_vec, or an error.
similarity(g, query_vec, engine_ok) ==
    IF engine_ok
    THEN [ok |-> TRUE, matches |-> IF query_vec = <<"zero">> THEN {} ELSE NodeIds(g)]
    ELSE [ok |-> FALSE, matches |-> {}]

\* What memory_similar returned: Ok(ToolCallResult) with is_error, or
\* Err(error); locked tells whether session.lock() was called, query_vec
\* is the vector handed to the engine, if any.
SimilarResult(w, ok, is_error, error, locked, query_vec, matches) ==
    [w |-> w, ok |-> ok,
     ret |-> [is_error |-> is_error, error |-> error, locked |-> locked,
              query_vec |-> query_vec, matches |-> matches]]

\* memory_similar looking at query_text before query_vec.
memory_similar_text_first(args, w, engine_ok) ==
    IF ~args.parsed
    THEN SimilarResult(w, FALSE, FALSE, "InvalidParams", FALSE, <<>>, {})
    ELSE IF args.query_text # <<>>
    THEN SimilarResult(w, TRUE, TRUE, "none", FALSE, <<>>, {})
    ELSE IF args.query_vec # <<>>
    THEN SimilarResult(w, TRUE, FALSE, "none", TRUE, args.query_vec,
                       similarity(w.graph, args.query_vec, TRUE).matches)
    ELSE SimilarResult(w, FALSE, FALSE, "InvalidParams", FALSE, <<>>, {})

\* tools/memory_similar.rs execute; query_text and query_vec are <<>>
\* (None) or <<value>> (Some(value)), parsed tells whether the arguments
\* deserialize into SimilarParams.
memory_similar(args, w, engine_ok) ==
    IF ~args.parsed
    THEN SimilarResult(w, FALSE, FALSE, "InvalidParams", FALSE, <<>>, {})
    ELSE IF args.query_vec # <<>>
    THEN LET results == similarity(w.graph, args.query_vec, engine_ok) IN
         IF results.ok
         THEN SimilarResult(w, TRUE, FALSE, "none", TRUE, args.query_vec, results.matches)
         ELSE SimilarResult(w, FALSE, FALSE, "AgenticMemory", TRUE, args.query_vec, {})
    ELSE IF args.query_text # <<>>
    THEN SimilarResult(w, TRUE, TRUE, "none", FALSE, <<>>, {})
    ELSE SimilarResult(w, FALSE, FALSE, "InvalidParams", FALSE, <<>>, {})

\* memory_similar called with arguments that do or do not deserialize,
\* with and without query_text, and without query_vec, with a vector of
\* zeros or with another vector.
MemorySimilar ==
    /\ Ready /\ open
    /\ \E r \in {memory_similar(args, Self, engine_ok) @@ [arg |-> args] :
                     args \in [parsed : BOOLEAN, query_text : {<<>>, <<"text">>},
                               query_vec : {<<>>, <<"zero">>, <<"vec">>}],
                     engine_ok \in BOOLEAN} :
          Install("memory_similar", r)

RECURSIVE resolve(_, _)
\* QueryEngine::resolve: the node at the end of the supersedes chain that
\* starts at node_id; <<id>> for Ok, <<>> for Err.
resolve(g, node_id) ==
    IF node_id \notin NodeIds(g) THEN <<>>
    ELSE LET newer == {e.source_id : e \in {d \in g.edges :
                          d.edge_type = "supersedes" /\ d.target_id = node_id}}
         IN IF newer = {} THEN <<node_id>> ELSE resolve(g, Max(newer))

\* memory_resolve reporting every node as the latest.
memory_resolve_always_latest(node_id, w) ==
    LET resolved == resolve(w.graph, node_id) IN
    IF resolved = <<>>
    THEN [w |-> w, ok |-> FALSE, ret |-> [error |-> "AgenticMemory"]]
    ELSE [w |-> w, ok |-> TRUE,
          ret |-> [original_id |-> node_id, resolved_id |-> resolved[1],
                   is_latest |-> TRUE]]

\* tools/memory_resolve.rs execute
memory_resolve(node_id, w) ==
    LET resolved == resolve(w.graph, node_id) IN
    IF resolved = <<>>
    THEN [w |-> w, ok |-> FALSE, ret |-> [error |-> "AgenticMemory"]]
    ELSE [w |-> w, ok |-> TRUE,
          ret |-> [original_id |-> node_id, resolved_id |-> resolved[1],
                   is_latest |-> (resolved[1] = node_id)]]

MemoryResolve ==
    /\ Ready /\ open
    /\ \E r \in {memory_resolve(node_id, Self) : node_id \in NodeIds(graph) \cup {DanglingId}} :
          Install("memory_resolve", r)

\* correct_node on any node of the graph.
CorrectAnyNode ==
    /\ Ready /\ open
    /\ node_count(graph) < MaxNodes
    /\ \E r \in {correct_node(Self, old_node_id, "ok") : old_node_id \in NodeIds(graph)} :
          Install("correct_node", r)

\* chunk_results dropping the chunk that is not full.
chunk_results_exact(results, chunk_size) ==
    [i \in 1..(Len(results) \div chunk_size) |->
        SubSeq(results, (i - 1) * chunk_size + 1, i * chunk_size)]

RECURSIVE chunk_results(_, _)
\* streaming/chunked.rs chunk_results, for chunk_size >= 1: slice::chunks
\* takes chunk_size items at a time and what is left at the end.
chunk_results(results, chunk_size) ==
    IF results = <<>> THEN <<>>
    ELSE IF Len(results) <= chunk_size THEN <<results>>
    ELSE <<SubSeq(results, 1, chunk_size)>>
            \o chunk_results(SubSeq(results, chunk_size + 1, Len(results)), chunk_size)

\* chunk_results(results, chunk_size); slice::chunks panics on a
\* chunk_size of 0.
ChunkResults ==
    /\ Ready
    /\ \E n \in 0..MaxResults, chunk_size \in 0..MaxChunkSize :
          LET results == [i \in 1..n |-> i - 1]
              r == IF chunk_size = 0
                   THEN [w |-> [Self EXCEPT !.panicked = TRUE], ok |-> FALSE, ret |-> <<>>,
                         arg |-> [results |-> results, chunk_size |-> chunk_size]]
                   ELSE [w |-> Self, ok |-> TRUE,
                         ret |-> chunk_results(results, chunk_size),
                         arg |-> [results |-> results, chunk_size |-> chunk_size]]
          IN last' = Done("chunk_results", r, 0, FALSE)
    /\ UNCHANGED <<open, graph, current_session, dirty, last_save, file, now>>

NextTools ==
    \/ (Open /\ UNCHANGED <<protoVars, taskVars, readerVars, trackVars, max_returned>>)
    \/ (AddEvent /\ UNCHANGED <<protoVars, taskVars, readerVars, trackVars, max_returned>>)
    \/ (CorrectAnyNode /\ UNCHANGED <<protoVars, taskVars, readerVars, trackVars, max_returned>>)
    \/ (MemorySimilar /\ UNCHANGED <<protoVars, taskVars, readerVars, trackVars, max_returned>>)
    \/ (MemoryResolve /\ UNCHANGED <<protoVars, taskVars, readerVars, trackVars, max_returned>>)
    \/ (ChunkResults /\ UNCHANGED <<protoVars, taskVars, readerVars, trackVars, max_returned>>)
    \/ (Return /\ UNCHANGED <<protoVars, taskVars, readerVars, trackVars, max_returned>>)

SpecTools == Init /\ [][NextTools]_vars

\* ------------------------------------------------------------------ properties

\* C1: while the initialized notification has not been received, a request
\* whose method is neither initialize nor ping is answered with the
\* InvalidRequest error (-32600) and is handed to no registry.
C1_HandshakeGate ==
    (reply.kind = "request" /\ ~initialized /\ reply.method \notin {"initialize", "ping"})
        => /\ reply.result = "error"
           /\ reply.code = -32600
           /\ reply.dispatched = "none"

\* tools/list sent before any initialize was refused.
C1_Witness ==
    /\ reply.kind = "request"
    /\ reply.method = "tools/list"
    /\ ~initialized
    /\ client = "default"
    /\ reply.code = -32600

\* C2: answering a request, initialize included, leaves initialized as it
\* was; initialized becomes true only in the step that handles the
\* initialized notification; once true it stays true.
C2_HandshakeTwoStep ==
    [][/\ (reply'.kind = "request" => initialized' = initialized)
       /\ ((~initialized /\ initialized')
              => reply'.kind = "notification" /\ reply'.method = "initialized")
       /\ (initialized => initialized')]_vars

\* An initialize request was answered with a result, the client's
\* capabilities are recorded and the server is still uninitialized.
C2_Witness ==
    /\ reply.kind = "request"
    /\ reply.method = "initialize"
    /\ reply.result = "result"
    /\ client = "roots"
    /\ ~initialized

\* C3: save() called while dirty is false begins no write and leaves dirty,
\* last_save and the file as they were; a save() that returned Ok leaves
\* dirty false, so that of two save() calls in a row the second begins no
\* write and the file is written at most once.
C3_SaveCleanNoop ==
    /\ [](last.op = "save" /\ ~last.pre_dirty
            => /\ last.ok
               /\ last.attempts = 0
               /\ last.writes = 0
               /\ ~last.file_changed
               /\ ~last.last_save_changed
               /\ open /\ ~dirty)
    /\ [](last.op = "save" /\ last.ok => open /\ ~dirty /\ last.writes <= 1)
    /\ [][(Save /\ ~dirty)
            => /\ last'.attempts = 0
               /\ UNCHANGED <<dirty, last_save, file, graph>>]_vars

\* save() returned from a clean Session Core whose file holds a node.
C3_Witness ==
    /\ last.op = "save"
    /\ ~last.pre_dirty
    /\ file # NoFile
    /\ node_count(graph) >= 1

FallibleOps ==
    {"save", "maybe_auto_save", "add_event", "correct_node", "commit",
     "session_end", "end_session_with_episode"}

\* A write of the file failed inside the last operation and the process
\* lives on.
WriteFailed == last.attempts = 1 /\ last.writes = 0 /\ ~last.killed

\* C4: when the write inside save() fails, the operation that called save()
\* returns an error, dirty is still true and last_save has its previous
\* value; a save() on a dirty Session Core begins a write, and so does
\* maybe_auto_save() once the interval has elapsed, so the write is retried.
C4_SaveFailureKeepsDirty ==
    /\ [](WriteFailed /\ last.op \in FallibleOps
            => ~last.ok /\ open /\ dirty /\ ~last.last_save_changed)
    /\ [](WriteFailed /\ last.op = "autosave_tick"
            => open /\ dirty /\ ~last.last_save_changed)
    /\ [][(Save /\ dirty) => last'.attempts = 1]_vars
    /\ [][(MaybeAutoSave /\ dirty)
            => (last'.attempts = 1 <=> now - last_save >= DEFAULT_AUTO_SAVE_SECS)]_vars

\* A direct save() failed on a dirty Session Core.
C4_Witness ==
    /\ last.op = "save"
    /\ WriteFailed
    /\ ~last.ok
    /\ dirty

\* C5: whenever dirty is false, opening the file yields the in-memory graph.
C5_CleanMeansSaved == (open /\ ~dirty) => Reads(file, graph)

\* C6: maybe_auto_save() begins a write exactly when dirty is true and at
\* least auto_save_interval has elapsed since last_save; it completes one
\* only then; otherwise it returns Ok and changes nothing, so a mutation made
\* before the interval has elapsed stays in the graph, unsaved and dirty.
C6_AutoSaveOnlyWhenDue ==
    last.op = "maybe_auto_save"
        => /\ (last.attempts = 1
                  <=> last.pre_dirty /\ last.pre_elapsed >= DEFAULT_AUTO_SAVE_SECS)
           /\ last.writes <= last.attempts
           /\ ~last.graph_changed
           /\ (last.attempts = 0
                  => /\ last.ok
                     /\ ~last.file_changed
                     /\ ~last.last_save_changed
                     /\ open
                     /\ dirty = last.pre_dirty)

\* maybe_auto_save() returned before the interval had elapsed on a dirty
\* graph of one node, which is still there, unsaved.
C6_Witness ==
    /\ last.op = "maybe_auto_save"
    /\ last.pre_dirty
    /\ last.pre_elapsed < DEFAULT_AUTO_SAVE_SECS
    /\ last.attempts = 0
    /\ dirty
    /\ node_count(graph) = 1
    /\ ~Reads(file, graph)

\* C7: dropping a dirty Session Core begins one save, and when that write
\* succeeds opening the file yields the graph the Session Core held, with
\* every node added; the failure of that save is not propagated; a Session
\* Core that is not dirty begins no write on drop.
C7_DropFlushes ==
    last.op = "drop"
        => /\ last.ok
           /\ ~open
           /\ (last.pre_dirty => last.attempts = 1)
           /\ (last.writes = 1 => last.synced /\ WellFormed(file))
           /\ (~last.pre_dirty => last.attempts = 0 /\ ~last.file_changed)

\* A Session Core holding two nodes that were not in the file was dropped
\* and the file now holds them.
C7_Witness ==
    /\ last.op = "drop"
    /\ last.pre_dirty
    /\ last.writes = 1
    /\ last.file_changed
    /\ WellFormed(file)
    /\ file.node_count = 2

C9_RejectedCommit ==
    (last.op = "commit" /\ last.rejected)
        => /\ ~last.ok
           /\ last.ret = <<>>
           /\ ~last.graph_changed
           /\ last.added = 0
           /\ last.attempts = 0
           /\ ~last.file_changed

\* A batch of two events was rejected.
C9_Witness ==
    /\ last.op = "commit"
    /\ last.rejected
    /\ last.queued = 2
    /\ node_count(graph) = 0

\* C10: a commit that returns Ok has added one node per queued event, returns
\* their ids in order (the ids following those of the graph), has written the
\* file once, and leaves dirty false with the file holding the graph.
C10_CommitOk ==
    (last.op = "commit" /\ last.ok)
        => /\ Len(last.ret) = last.queued
           /\ last.added = last.queued
           /\ \A i \in 1..Len(last.ret) :
                 last.ret[i] = node_count(graph) - last.queued + i
           /\ last.attempts = 1
           /\ last.writes = 1
           /\ open /\ ~dirty
           /\ last.synced

\* A batch of two events and one edge was committed.
C10_Witness ==
    /\ last.op = "commit"
    /\ last.ok
    /\ last.queued = 2
    /\ edge_count(graph) = 1
    /\ ~dirty

\* C11: after session_end (with or without an episode) or Transaction.commit
\* returned Ok, dirty is false and opening the file yields the graph with
\* every mutation made so far, whatever part of the interval has elapsed.
C11_ForcedSaveDurable ==
    (last.op \in {"session_end", "end_session_with_episode", "commit"} /\ last.ok)
        => /\ open /\ ~dirty
           /\ Reads(file, graph)

\* C12: in every state of a live Session Core, current_session is greater
\* than or equal to the session_id of every node of the graph.
C12_SessionBoundsNodes ==
    open => \A i \in NodeIds(graph) : U32Leq(graph.nodes[i].session_id, current_session)

\* C13: right after open() returned a Session Core, current_session is 1 when
\* the loaded graph has no session id and the largest session id plus one
\* otherwise, strictly greater than the session_id of every node of the
\* file, and dirty is false.
C13_OpenAllocates ==
    (last.op = "open" /\ last.ok)
        => LET ids == session_ids(graph) IN
           /\ open /\ ~dirty
           /\ (ids = {} => current_session = 1)
           /\ (ids # {} => /\ Max(ids) # U32_MAX
                           /\ current_session = Max(ids) + 1)
           /\ \A id \in ids : id # current_session /\ U32Leq(id, current_session)

\* C14: start_session(None) returns the largest session id of the graph plus
\* one, and that id is not smaller than current_session was before the call;
\* start_session(Some(id)) returns id; either way current_session becomes
\* the id returned.
C14_StartSessionAllocates ==
    (last.op = "start_session" /\ last.ok)
        => LET ids == session_ids(graph) IN
           /\ Len(last.ret) = 1
           /\ current_session = last.ret[1]
           /\ (last.arg # <<>> => last.ret[1] = last.arg[1])
           /\ (last.arg = <<>>
                 => /\ last.ret[1] = (IF ids = {} THEN 0 ELSE Max(ids)) + 1
                    /\ U32Leq(last.pre_session, last.ret[1]))

\* C15: every node id a Session Core returns (from add_event, correct_node,
\* end_session_with_episode or Transaction.commit) is strictly greater than
\* every node id it returned before, so no node id is returned twice.
C15_IdsIncrease ==
    (last.op \in NodeIdOps /\ last.ok)
        => \A i \in 1..Len(last.ret) :
              /\ last.ret[i] > last.pre_returned
              /\ \A j \in 1..Len(last.ret) : i < j => last.ret[i] < last.ret[j]

\* add_event returned node id 2 after node id 1 had been returned.
C15_Witness ==
    /\ last.op = "add_event"
    /\ last.ok
    /\ last.pre_returned = 1
    /\ last.ret = <<2>>
    /\ max_returned = 2

\* C16: at most one task is inside the Session Core at a time and it is the
\* holder of the Mutex; the concurrent adds that succeeded got distinct node
\* ids, in the order in which the calls got the lock, and once every call
\* has returned the graph holds as many nodes as adds succeeded.
C16_LockSerializes ==
    LET inside == {h \in Handlers : pc[h] = "locked"}
        succeeded == {h \in Handlers : got[h].returned /\ got[h].ok}
    IN /\ Cardinality(inside) + (IF ticker = "locked" THEN 1 ELSE 0) <= 1
       /\ \A h \in inside : mutex = HandlerTask(h)
       /\ (ticker = "locked" => mutex = TickerTask)
       /\ \A g, h \in succeeded : g # h => got[g].id # got[h].id
       /\ \A i, j \in 1..Len(order) :
             (i < j /\ order[i] \in succeeded /\ order[j] \in succeeded)
                => got[order[i]].id < got[order[j]].id
       /\ (open /\ \A h \in Handlers : got[h].returned)
             => node_count(graph) = Cardinality(succeeded)

\* C17: once every owner other than the auto-save task has let go of the
\* Session Core, the Session Core is dropped and the task has ended.
C17_TickerTiedToCore ==
    "server" \notin owners => (~open /\ ticker \in {"absent", "ended"})

\* C18: with a live auto-save task, a dirty graph is saved in the end; a
\* turn of the task whose auto-save failed leaves dirty set and last_save
\* as it was, logs the error, lets go of the lock and leaves the task
\* running, so that a later turn tries again.
C18_AutoSaveEventually ==
    /\ ((open /\ dirty /\ "ticker" \in owners) ~> ~dirty)
    /\ [][(\E io \in TaskIo : TickerSave(io))
            => /\ mutex' = Free
               /\ ticker' = "sleeping"
               /\ ((dirty /\ now - last_save >= DEFAULT_AUTO_SAVE_SECS /\ file' = file
                      /\ ~Reads(file, graph))
                     => dirty' /\ logged' /\ now' - last_save' = now - last_save)]_vars

\* A turn of the auto-save task failed to save a graph of one node; the task
\* sleeps again, nobody holds the lock and the graph is still dirty.
C18_Witness ==
    /\ logged
    /\ ticker = "sleeping"
    /\ mutex = Free
    /\ open /\ dirty
    /\ node_count(graph) = 1
    /\ now - last_save >= DEFAULT_AUTO_SAVE_SECS

\* C19: opening the file right after save() or session_end returned Ok
\* yields a graph with the node ids, the node count, the edge count and the
\* session ids of the graph that was saved.
C19_RoundTrip ==
    (last.op \in {"save", "session_end", "end_session_with_episode"} /\ last.ok)
        => LET r == LoadGraph(file) IN
           /\ r.ok
           /\ NodeIds(r.graph) = NodeIds(graph)
           /\ node_count(r.graph) = node_count(graph)
           /\ edge_count(r.graph) = edge_count(graph)
           /\ session_ids(r.graph) = session_ids(graph)

\* C20: a Session Core on which only read tools run never sets dirty and
\* never begins a write of the file, on drop included, so the file stays as
\* it was seeded and every reader, whenever it opens, holds and is shown the
\* nodes of the file.
C20_ReadersAgree ==
    /\ [](\A r \in Readers :
            /\ ~readers[r].dirty
            /\ readers[r].attempts = 0
            /\ (readers[r].open => readers[r].graph = LoadGraph(file).graph)
            /\ (readers[r].seen.tool = "memory_query"
                   => readers[r].seen.nodes = LoadGraph(file).graph.nodes)
            /\ (readers[r].seen.tool = "memory_stats"
                   => readers[r].seen.node_count = node_count(LoadGraph(file).graph)))
    /\ [][file' = file]_vars

\* Every reader has the file open at the same time and every one of them
\* was shown both of its facts.
C20_Witness ==
    /\ \A r \in Readers :
          /\ readers[r].open
          /\ readers[r].seen.tool = "memory_query"
          /\ Len(readers[r].seen.nodes) = 2
    /\ file = Encode(Facts(2))

\* C21: update() never waits on the channel: whenever its send is reached,
\* the send returns at once, the notification being dropped when the
\* channel is full.
C21_UpdateNeverBlocks ==
    upd.pc = "sending"
        => send(channel, rx_alive,
                ProgressNotification(upd.token, upd.progress, upd.total)).outcome # "waits"

\* C22: is_cancelled(token) is false exactly for the tokens start()
\* returned that were neither cancelled nor completed since, true for every
\* other token, and cancel or complete of one token leaves the answer for
\* every other token as it was.
C22_IsCancelled ==
    /\ \A t \in AnyToken : is_cancelled(active, t) = (t \notin live)
    /\ asked.called => asked.ret = (asked.token \notin live)
    /\ \A t \in AnyToken : \A u \in AnyToken \ {t} :
          /\ is_cancelled(cancel(active, t), u) = is_cancelled(active, u)
          /\ is_cancelled(complete(active, t), u) = is_cancelled(active, u)

\* Two tokens are tracked, one was cancelled and is_cancelled() said so,
\* the other is still running.
C22_Witness ==
    /\ next_token = 2
    /\ live = {2}
    /\ DOMAIN active = {1, 2}
    /\ asked.called /\ asked.token = 1 /\ asked.ret

\* What update() does under the write lock, as C23 states it: a tracked
\* token gets the new current value and nothing else changes, the
\* notification being built carries the token, the value and the total the
\* token is tracked with, and that total never changes while the token is
\* tracked; for a token that is not tracked update() returns at once and
\* changes nothing; cancel() of a token that is not tracked changes nothing.
UpdateUnderLock ==
    /\ [][TrackerUpdate =>
            IF upd'.pc = "sending"
            THEN /\ upd'.token \in DOMAIN active
                 /\ active' = [active EXCEPT ![upd'.token].current = upd'.progress]
                 /\ upd'.total = active[upd'.token].total
            ELSE active' = active /\ channel' = channel]_vars
    /\ [][\A t \in DOMAIN active \cap DOMAIN active' :
            active'[t].total = active[t].total]_vars
    /\ [](\A t \in AnyToken \ DOMAIN active :
            /\ cancel(active, t) = active
            /\ \A v \in ProgressValues :
                  /\ tracker_update(active, t, v).active = active
                  /\ ~tracker_update(active, t, v).sends)

\* C23: update(token, v) on a tracked token sets its current value to v,
\* leaves its cancelled flag alone and enqueues exactly one
\* notifications/progress carrying the token, v and the total given at
\* start; on a token that is not tracked it changes nothing and enqueues
\* nothing; cancel() of an unknown token creates no entry.
C23_UpdateEnqueues ==
    /\ UpdateUnderLock
    /\ [][TrackerSend =>
            channel' = Append(channel,
                              ProgressNotification(upd.token, upd.progress, upd.total))]_vars

\* C23 as the code has it: the one notification is enqueued while the
\* Receiver of the channel is alive; once the Receiver was dropped update()
\* still sets the current value and returns Ok, and enqueues nothing.
C23_UpdateEnqueuesWhileReceived ==
    /\ UpdateUnderLock
    /\ [][TrackerSend =>
            IF rx_alive
            THEN channel' = Append(channel,
                              ProgressNotification(upd.token, upd.progress, upd.total))
            ELSE channel' = channel]_vars

\* update() on a cancelled token has returned: the token is still
\* cancelled, holds the new value, and its notification is in the channel.
C23_Witness ==
    /\ upd.pc = "idle"
    /\ 1 \in DOMAIN active
    /\ active[1].cancelled
    /\ active[1].current = 1
    /\ active[1].total = <<100>>
    /\ channel = <<ProgressNotification(1, 1, <<100>>)>>

\* The methods a request can name that the server knows.
KnownMethods == DOMAIN DispatchTable \cup {"initialize", "ping", "shutdown"}

\* A shutdown request is answered with a result only in state Initialized
\* and leaves the server in ShuttingDown, which it never leaves.
ShutdownAnswered ==
    /\ (reply'.kind = "request" /\ reply'.method = "shutdown" /\ reply'.result = "result")
          => (initialized /\ ~shutting_down /\ shutting_down')
    /\ (shutting_down => shutting_down')

C25_PingAnyState ==
    /\ []((reply.kind = "request" /\ reply.method = "ping")
            => /\ reply.result = "result"
               /\ reply.id = reply.msg_id
               /\ reply.dispatched = "none")
    /\ [][(reply'.kind = "request" /\ reply'.method = "ping")
            => /\ initialized' = initialized
               /\ client' = client
               /\ shutting_down' = shutting_down]_vars

\* A ping was answered in ShuttingDown.
C25_Witness ==
    /\ shutting_down
    /\ initialized
    /\ reply.kind = "request"
    /\ reply.method = "ping"
    /\ reply.result = "result"

\* C26: a notification is never answered, whatever its method and whether
\* or not its handling failed (the HTTP transport then sends the body
\* null); a request is always answered.
C26_NotificationsUnanswered ==
    /\ reply.kind = "notification"
          => (reply.result = "none" /\ sse_body(reply) = "null")
    /\ reply.kind = "request"
          => (reply.result \in {"result", "error"} /\ sse_body(reply) = reply.result)

\* The handling of a $/cancelRequest notification failed, was logged, and
\* nothing was answered.
C26_Witness ==
    /\ reply.kind = "notification"
    /\ reply.method = "$/cancelRequest"
    /\ reply.logged
    /\ reply.result = "none"

\* A request is answered once, under its own id, with a result or with an
\* error whose code is that of the error kind; the error of a dispatched
\* request is one the registry operation returns.
OneResponse ==
    reply.kind = "request"
        => /\ reply.id = reply.msg_id
           /\ reply.result \in {"result", "error"}
           /\ reply.result = "result" => reply.error_kind = "none"
           /\ reply.result = "error"
                 => /\ reply.error_kind # "none"
                    /\ reply.code = ErrorCode(reply.error_kind)
           /\ (reply.result = "error" /\ reply.dispatched # "none")
                 => reply.error_kind \in HandlerErrors(reply.dispatched)

C28_EndKeepsNodes ==
    [][(last'.op \in {"session_end", "end_session_with_episode"} /\ open')
         => /\ Len(graph'.nodes) >= Len(graph.nodes)
            /\ SubSeq(graph'.nodes, 1, Len(graph.nodes)) = graph.nodes
            /\ graph.edges \subseteq graph'.edges
            /\ last'.op = "session_end" => graph' = graph
            /\ last'.op = "end_session_with_episode"
                  => /\ Len(graph'.nodes) <= Len(graph.nodes) + 1
                     /\ \A i \in NodeIds(graph') \ NodeIds(graph) :
                           graph'.nodes[i].event_type = "episode"
                     /\ \A e \in graph'.edges \ graph.edges :
                           /\ e.target_id \in NodeIds(graph') \ NodeIds(graph)
                           /\ e.source_id \in NodeIds(graph)]_vars

\* A session holding one fact was ended with an episode: the fact is still
\* node 1 and the episode is node 2, reached by a part_of edge.
C28_Witness ==
    /\ last.op = "end_session_with_episode"
    /\ last.ok
    /\ node_count(graph) = 2
    /\ graph.nodes[1].event_type = "fact"
    /\ graph.nodes[2].event_type = "episode"
    /\ [source_id |-> 1, target_id |-> 2, edge_type |-> "part_of"] \in graph.edges

\* The Session Core is as the last call found it: graph, file, dirty and
\* current_session unchanged and no write begun.
ReadLeftState ==
    /\ ~last.graph_changed
    /\ ~last.file_changed
    /\ last.attempts = 0
    /\ dirty = last.pre_dirty
    /\ current_session = last.pre_session

\* C29: in every state of an open Session Core each listed URI reads Ok
\* with one content item; each template reads Ok with one content item
\* when expanded with the id of a node of the graph, with a session id
\* that has nodes, or with the name of an event type; the id of no node
\* yields NodeNotFound and a session id without nodes SessionNotFound.
C29_ListedUrisRead ==
    /\ open =>
        /\ \A i \in 1..Len(list_resources) :
              LET r == read(list_resources[i], Self) IN
              r.ok /\ Len(r.ret.contents) = 1 /\ r.ret.contents[1].uri = list_resources[i]
        /\ \A id \in NodeIdProbes :
              LET uri == expand(list_templates[1], Decimal(id))
                  r == read(uri, Self)
              IN IF id \in NodeIds(graph)
                 THEN r.ok /\ Len(r.ret.contents) = 1 /\ r.ret.contents[1].uri = uri
                         /\ r.ret.contents[1].text.id = id
                 ELSE ~r.ok /\ r.ret.error = "NodeNotFound"
        /\ \A id \in SessionIdProbes \cup session_ids(graph) :
              LET uri == expand(list_templates[2], FormatU32(id))
                  r == read(uri, Self)
              IN IF id \in session_ids(graph)
                 THEN r.ok /\ Len(r.ret.contents) = 1 /\ r.ret.contents[1].uri = uri
                         /\ r.ret.contents[1].text.session_id = id
                 ELSE ~r.ok /\ r.ret.error = "SessionNotFound"
        /\ \A n \in DOMAIN EventTypeChars :
              LET uri == expand(list_templates[3], EventTypeChars[n])
                  r == read(uri, Self)
              IN r.ok /\ Len(r.ret.contents) = 1 /\ r.ret.contents[1].uri = uri
    /\ (last.op = "resources/read" /\ last.ok) => Len(last.ret.contents) = 1

\* amem://session/1 was read on a graph of two nodes of session 1, and
\* gave one content item naming both.
C29_Witness ==
    /\ last.op = "resources/read"
    /\ last.ok
    /\ last.arg = SESSION_PREFIX \o <<"1">>
    /\ node_count(graph) = 2
    /\ Len(last.ret.contents) = 1
    /\ last.ret.contents[1].text.nodes = {1, 2}

\* C30: a read of a URI with an unknown scheme, of one that matches no
\* prefix and no concrete URI, or of a node or session URI whose id does
\* not parse, is rejected with InvalidParams; a rejected read leaves the
\* Session Core as it was.
C30_RejectedInvalidParams ==
    /\ (last.op = "resources/read" /\ last.arg \in UnknownUris \cup BadIdUris)
          => (~last.ok /\ last.ret.error = "InvalidParams")
    /\ (last.op = "resources/read" /\ ~last.ok) => ReadLeftState

\* C30 as the code has it: the URI that matches nothing is rejected with
\* ResourceNotFound, the id that does not parse with InvalidParams.
C30_RejectedByKind ==
    /\ (last.op = "resources/read" /\ last.arg \in UnknownUris)
          => (~last.ok /\ last.ret.error = "ResourceNotFound")
    /\ (last.op = "resources/read" /\ last.arg \in BadIdUris)
          => (~last.ok /\ last.ret.error = "InvalidParams")
    /\ (last.op = "resources/read" /\ ~last.ok) => ReadLeftState

\* amem://node/abc was rejected with InvalidParams on a graph that has a
\* node and unsaved changes.
C30_Witness ==
    /\ last.op = "resources/read"
    /\ last.arg = NODE_PREFIX \o <<"a", "b", "c">>
    /\ ~last.ok
    /\ last.ret.error = "InvalidParams"
    /\ node_count(graph) = 1
    /\ dirty

\* C31: memory_similar with query_text and no query_vec returns Ok with
\* is_error = true without locking the session; with neither it returns
\* Err(InvalidParams); with a query_vec, query_text or not, the vector is
\* handed to the engine and the answer is the engine's.  No call changes
\* the graph.
C31_SimilarNeedsVector ==
    (last.op = "memory_similar" /\ last.arg.parsed) =>
        /\ (last.arg.query_vec = <<>> /\ last.arg.query_text # <<>>)
              => /\ last.ok /\ last.ret.is_error
                 /\ ~last.ret.locked
        /\ (last.arg.query_vec = <<>> /\ last.arg.query_text = <<>>)
              => /\ ~last.ok /\ last.ret.error = "InvalidParams"
                 /\ ~last.ret.locked
        /\ last.arg.query_vec # <<>>
              => /\ last.ret.locked
                 /\ last.ret.query_vec = last.arg.query_vec
                 /\ ~last.ret.is_error
                 /\ last.ret.error \in {"none", "AgenticMemory"}
        /\ ReadLeftState

\* memory_similar was called with both query_text and query_vec on a graph
\* of two nodes and answered with the matches of the vector.
C31_Witness ==
    /\ last.op = "memory_similar"
    /\ last.arg = [parsed |-> TRUE, query_text |-> <<"text">>, query_vec |-> <<"vec">>]
    /\ last.ok
    /\ last.ret.matches = {1, 2}

\* C32: for every node id x whose resolve succeeds, resolving the resolved
\* id gives the same id; memory_resolve reports is_latest = true exactly
\* when the resolved id is the requested id.
C32_ResolveIdempotent ==
    /\ \A x \in NodeIds(graph) \cup {DanglingId} :
          LET first == resolve(graph, x) IN
          first # <<>> =>
              /\ resolve(graph, first[1]) = first
              /\ memory_resolve(first[1], Self).ret.is_latest
              /\ memory_resolve(x, Self).ret.is_latest <=> (first[1] = x)
    /\ (last.op = "memory_resolve" /\ last.ok)
          => (last.ret.is_latest <=> (last.ret.resolved_id = last.ret.original_id))

\* Node 1 was resolved after it had been corrected: the answer is the
\* correction and is_latest is false.
C32_Witness ==
    /\ last.op = "memory_resolve"
    /\ last.ok
    /\ last.ret.original_id = 1
    /\ last.ret.resolved_id = 2
    /\ ~last.ret.is_latest

RECURSIVE Concat(_)
\* The chunks one after the other.
Concat(chunks) ==
    IF chunks = <<>> THEN <<>> ELSE Head(chunks) \o Concat(Tail(chunks))

\* C33: for a list of n results and chunk_size k >= 1, chunk_results
\* returns ceil(n / k) chunks whose concatenation is the list; every chunk
\* but the last has k items, the last has between 1 and k; an empty list
\* gives no chunks.
C33_ChunksPartition ==
    (last.op = "chunk_results" /\ last.arg.chunk_size >= 1) =>
        LET n == Len(last.arg.results)
            k == last.arg.chunk_size
            chunks == last.ret
        IN /\ last.ok
           /\ Len(chunks) = (n + k - 1) \div k
           /\ Concat(chunks) = last.arg.results
           /\ \A i \in 1..Len(chunks) :
                 /\ i < Len(chunks) => Len(chunks[i]) = k
                 /\ Len(chunks[i]) \in 1..k
           /\ n = 0 => chunks = <<>>

\* Five results were cut into chunks of two: two full chunks and one of
\* one item.
C33_Witness ==
    /\ last.op = "chunk_results"
    /\ last.arg.chunk_size = 2
    /\ Len(last.arg.results) = 5
    /\ Len(last.ret) = 3
    /\ Len(last.ret[3]) = 1

\* C34: a node that add_event or correct_node puts into the graph carries
\* the current_session of the moment of the call; while the SessionManager
\* lives no operation changes the session_id of a node the graph holds,
\* and a SessionManager opened on the file finds the session ids that were
\* saved.
C34_SessionIdStamped ==
    /\ [][/\ (open /\ open')
               => \A i \in NodeIds(graph) :
                     /\ i \in NodeIds(graph')
                     /\ graph'.nodes[i].session_id = graph.nodes[i].session_id
          /\ (open /\ open' /\ last'.op \in {"add_event", "correct_node"})
               => \A i \in NodeIds(graph') \ NodeIds(graph) :
                     graph'.nodes[i].session_id = current_session
          /\ (~open /\ open' /\ file # NoFile)
               => graph' = read_from_file(file).graph]_vars
    /\ [](open /\ file # NoFile /\ WellFormed(file)
            => \A i \in NodeIds(read_from_file(file).graph) :
                  /\ i \in NodeIds(graph)
                  /\ read_from_file(file).graph.nodes[i].session_id
                        = graph.nodes[i].session_id)

\* A node was added after start_session: it carries the started session,
\* the node before it the session it was added in.
C34_Witness ==
    /\ last.op = "add_event"
    /\ last.ok
    /\ node_count(graph) = 2
    /\ graph.nodes[2].session_id = current_session
    /\ graph.nodes[1].session_id # current_session

\* C35: when add_event or correct_node returns an error, the graph holds
\* the nodes and edges it held before the call.
C35_ErrorLeavesGraph ==
    (last.op \in {"add_event", "correct_node"} /\ ~last.ok /\ open)
        => ~last.graph_changed

\* C36: a commit whose ingest is rejected leaves dirty and last_save as
\* they were before the call.
C36_RejectedCommitKeepsDirty ==
    (last.op = "commit" /\ last.rejected /\ open)
        => /\ dirty = last.pre_dirty
           /\ ~last.last_save_changed

\* C37: session_end and end_session_with_episode leave current_session as
\* it was, and so does every operation of a living SessionManager other
\* than start_session, so that a node added after a session was ended
\* carries the ended session; start_session leaves the graph, dirty,
\* last_save and the file as they were and begins no write.
C37_SessionFrame ==
    /\ []((last.op \in {"session_end", "end_session_with_episode"} /\ open)
            => current_session = last.pre_session)
    /\ []((last.op = "start_session" /\ open)
            => /\ ~last.graph_changed
               /\ ~last.file_changed
               /\ ~last.last_save_changed
               /\ dirty = last.pre_dirty
               /\ last.attempts = 0)
    /\ [][(open /\ open' /\ last'.op # "start_session")
             => /\ current_session' = current_session
                /\ last'.op = "add_event"
                     => \A i \in NodeIds(graph') \ NodeIds(graph) :
                           graph'.nodes[i].session_id = current_session]_vars

\* start_session changed current_session while the graph had unsaved
\* nodes and the file existed.
C37_Witness ==
    /\ last.op = "start_session"
    /\ last.ok
    /\ current_session # last.pre_session
    /\ dirty
    /\ file # NoFile
    /\ node_count(graph) = 2

\* C38: no notifications/progress for a token is put on the channel after
\* complete(token) has returned, that is, while the token is not in the
\* map of the tracker.
C38_NoProgressAfterComplete ==
    [][Len(channel') > Len(channel)
          => channel'[Len(channel')].progress_token \in DOMAIN active]_vars

\* C39: open and start_session(None) never panic, and the session id they
\* yield is strictly greater, as a u32, than every session id of the graph,
\* u32::MAX included.
C39_AllocationNeverWraps ==
    /\ last.op \in {"open", "start_session"} => ~last.panicked
    /\ (last.ok /\ (last.op = "open" \/ (last.op = "start_session" /\ last.arg = <<>>)))
          => \A id \in session_ids(graph) :
                /\ id # current_session
                /\ U32Leq(id, current_session)

====
